---- MODULE Spec2Model ----
(***************************************************************************)
(* Model of the event identity resolver and merge engine of outy-back      *)
(* (eventsearch/orchestrate_event_extraction.py, eventsearch/              *)
(* extract_events.py), of the section-date parser and the homepage         *)
(* extraction of the same module, and of the description tool              *)
(* (eventsearch/enrich_descriptions.py).                                   *)
(*                                                                         *)
(* Python values are modelled as sequences: a string is the sequence of    *)
(* its characters, None is the one-element sequence <<"None">> (no string  *)
(* of the model has such an element), and a date string, which the code    *)
(* only truth-tests and compares whole, is a sequence of one element.      *)
(* A dict is a function whose DOMAIN is the set of keys present.           *)
(***************************************************************************)
EXTENDS Integers, Sequences, FiniteSets, TLC

VARIABLES
    heap,             \* the event dicts, by object identity (index)
    existing_events,  \* main: the list loaded from the input file (object ids)
    new_events,       \* main: queer_paris_events, the extracted list (object ids)
    merged,           \* merge_events: the list being built (object ids)
    pc,               \* position of main / merge_events
    i,                \* merge_events: index of the new event being processed
    heap0,            \* the dicts as they were when merge_events was called
    lastMatches,      \* indices of merged that matched the last new event
    lastMerged,       \* merged as it was before the last iteration
    lastHeap,         \* heap as it was before the last iteration
    unmatched,        \* the new events for which found_duplicate stayed False
    new_count,        \* main: "New events added"
    updated_count,    \* main: "Existing events updated"
    ev1, ev2,         \* the two arguments of a call of events_match
    mpc,              \* position of that call
    match_result,     \* its return value
    json_file,        \* enrich_event_descriptions: the file at json_file_path
    json_file0,       \* that file as it was when the tool started
    events,           \* enrich_event_descriptions: the list read from the file
    events0,          \* that list as it was read
    eprev,            \* events as it was before the last iteration
    ei,               \* enrich_event_descriptions: index of the event in the loop
    epc,              \* position of enrich_event_descriptions
    failed,           \* indices of the events whose page raised in the try
    input_file,       \* main: the file at args.input
    output_file,      \* main: the file at args.output
    output_file0,     \* that file as it was when main started
    args,             \* main: skip_shotgun, skip_queerparis, dry_run
    exit_code,        \* main: its return value (-1 while running)
    browser,          \* main: its browser ("none", "open", "closed")
    raised_at,        \* main: index of the event whose enrichment raised (0: none)
    enriched,         \* main: [step, index] pairs of the enrichment calls made
    steps,            \* main: the steps the run has reached
    date_section,     \* parse_date_from_section: its argument
    today,            \* datetime.now() as read by parse_date_from_section
    dpc,              \* position of that call
    date_result,      \* its return value, or the exception it raised
    lines,            \* homepage extraction: the non-empty lines of the page text
    hi,               \* homepage extraction: i (0-based, as in the code)
    current_date_section, \* homepage extraction: the header in force
    extracted,        \* homepage extraction: events, with the line each came from
    event_urls,       \* homepage extraction: the links of the page, text to URL
    hpc,              \* position of the homepage extraction
    raw_description,  \* parse_and_format_description: its argument
    translation,      \* what the translator does with it
    fpc,              \* position of that call
    main_text,        \* the formatted main description, None if there is none
    dress_text,       \* the formatted dress code text, None if there is none
    format_result,    \* its return value
    qp_event,         \* enrich_event_from_queerparis: the event it is given
    qp_info,          \* what extract_event_info_from_queerparis returns for it
    qp_result,        \* the event it returns
    qpc,              \* position of that call
    xpage,            \* extract_description_from_page: the page it is given
    xpc,              \* the strategy it is at
    xresult,          \* its return value
    all_text,         \* extract_event_info_from_queerparis: the text of the page
    event_info,       \* the dict it builds
    ipc,              \* position of that call
    sg_env,           \* enrich_event_from_shotgun: what the site does in the call
    sg_event,         \* the event it is given
    sg_browsers,      \* the browsers launched in the call ("open", "closed")
    sg_found,         \* what search_event_on_shotgun returned
    sgpc,             \* position of the call
    names_file,       \* format_event_names: the names of the events of its file
    names_file1,      \* those names as its first run wrote them
    npc               \* which run of format_event_names is next

vars == <<heap, existing_events, new_events, merged, pc, i, heap0, lastMatches,
          lastMerged, lastHeap, unmatched, new_count, updated_count, ev1, ev2, mpc,
          match_result, json_file, json_file0, events, events0, eprev, ei, epc,
          failed, input_file, output_file, output_file0, args, exit_code, browser,
          raised_at, enriched, steps, date_section, today, dpc, date_result, lines,
          hi, current_date_section, extracted, event_urls, hpc, raw_description,
          translation, fpc, main_text, dress_text, format_result, qp_event,
          qp_info, qp_result, qpc, xpage, xpc, xresult, all_text,
          event_info, ipc, sg_env, sg_event, sg_browsers, sg_found, sgpc,
          names_file, names_file1, npc>>

mergeVars == <<heap, existing_events, new_events, merged, pc, i, heap0,
               lastMatches, lastMerged, lastHeap, unmatched, new_count,
               updated_count>>

matchVars == <<ev1, ev2, mpc, match_result>>

descVars == <<json_file, json_file0, events, events0, eprev, ei, epc, failed>>

mainVars == <<input_file, output_file, output_file0, args, exit_code, browser,
              raised_at, enriched, steps>>

dateVars == <<date_section, today, dpc, date_result>>

homeVars == <<lines, hi, current_date_section, extracted, event_urls, hpc>>

formatVars == <<raw_description, translation, fpc, main_text, dress_text,
                format_result>>

queerVars == <<qp_event, qp_info, qp_result, qpc>>

pageVars == <<xpage, xpc, xresult>>

\* the variables of the functions that read one page
infoVars == <<all_text, event_info, ipc>>

shotgunVars == <<sg_env, sg_event, sg_browsers, sg_found, sgpc>>

titleVars == <<names_file, names_file1, npc>>

lateVars == <<pageVars, infoVars, shotgunVars, titleVars>>

moreVars == <<queerVars, lateVars>>

\* the variables of the tools other than merge_events and events_match
toolVars == <<descVars, mainVars, dateVars, homeVars, formatVars, moreVars>>

(***************************************************************************)
(* Values of the variables of a part that a specification does not run     *)
(***************************************************************************)
NoFile == [kind |-> "missing", events |-> <<>>]

DescIdle ==
    /\ json_file = NoFile
    /\ json_file0 = NoFile
    /\ events = <<>>
    /\ events0 = <<>>
    /\ eprev = <<>>
    /\ ei = 0
    /\ epc = "idle"
    /\ failed = {}

MainIdle ==
    /\ input_file = NoFile
    /\ output_file = NoFile
    /\ output_file0 = NoFile
    /\ args = [skip_shotgun |-> FALSE, skip_queerparis |-> FALSE, dry_run |-> FALSE]
    /\ exit_code = -1
    /\ browser = "none"
    /\ raised_at = 0
    /\ enriched = {}
    /\ steps = {}

DateIdle ==
    /\ date_section = <<>>
    /\ today = [year |-> 1, month |-> 1, day |-> 1]
    /\ dpc = "idle"
    /\ date_result = <<>>

HomeIdle ==
    /\ lines = <<>>
    /\ hi = 0
    /\ current_date_section = <<>>
    /\ extracted = <<>>
    /\ event_urls = <<>>
    /\ hpc = "idle"

FormatIdle ==
    /\ raw_description = <<>>
    /\ translation = "idle"
    /\ fpc = "idle"
    /\ main_text = <<>>
    /\ dress_text = <<>>
    /\ format_result = <<>>

QueerIdle ==
    /\ qp_event = <<>>
    /\ qp_info = <<>>
    /\ qp_result = <<>>
    /\ qpc = "idle"

PageIdle ==
    /\ xpage = <<>>
    /\ xpc = "idle"
    /\ xresult = <<>>

InfoIdle ==
    /\ all_text = <<>>
    /\ event_info = <<>>
    /\ ipc = "idle"

ShotgunIdle ==
    /\ sg_env = <<>>
    /\ sg_event = <<>>
    /\ sg_browsers = <<>>
    /\ sg_found = <<>>
    /\ sgpc = "idle"

TitleIdle ==
    /\ names_file = <<>>
    /\ names_file1 = <<>>
    /\ npc = "idle"

LateIdle == PageIdle /\ InfoIdle /\ ShotgunIdle /\ TitleIdle

MoreIdle == QueerIdle /\ LateIdle

ToolsIdle ==
    DescIdle /\ MainIdle /\ DateIdle /\ HomeIdle /\ FormatIdle /\ MoreIdle

(***************************************************************************)
(* Bounds                                                                  *)
(***************************************************************************)
\* number of event dicts in one run (existing plus extracted)
MaxEvents == 3
\* number of words of a name given to events_match
MaxWords == 3

(***************************************************************************)
(* Python values                                                           *)
(***************************************************************************)
None == <<"None">>

EmptyStr == <<>>

\* bool(value): None and the empty string are falsy
Truthy(v) == v # None /\ v # EmptyStr

\* dict.get(key) / dict.get(key, ''): both defaults are falsy
Get(d, key) == IF key \in DOMAIN d THEN d[key] ELSE None

GetStr(d, key) == IF key \in DOMAIN d THEN d[key] ELSE EmptyStr

(***************************************************************************)
(* normalize_event_name                                                    *)
(***************************************************************************)
\* the letters of the texts of the model; a character outside ASCII is
\* written by its name ("e_acute" is U+00E9)
UpperLetters ==
    <<"A", "B", "C", "D", "E", "F", "G", "H", "I", "J", "K", "L", "M", "N",
      "O", "P", "Q", "R", "S", "T", "U", "V", "W", "X", "Y", "Z", "E_acute", "U_circ">>

LowerLetters ==
    <<"a", "b", "c", "d", "e", "f", "g", "h", "i", "j", "k", "l", "m", "n",
      "o", "p", "q", "r", "s", "t", "u", "v", "w", "x", "y", "z", "e_acute", "u_circ">>

UpperCase == {UpperLetters[k] : k \in 1..Len(UpperLetters)}

LowerCase == {LowerLetters[k] : k \in 1..Len(LowerLetters)}

\* \w: letters, digits and the underscore
WordChars ==
    UpperCase \cup LowerCase
    \cup {"_", "0", "1", "2", "3", "4", "5", "6", "7", "8", "9"}

\* \s
SpaceChars == {" ", "\t", "\n"}

LowerChar(c) ==
    IF c \in UpperCase
    THEN LowerLetters[CHOOSE k \in 1..Len(UpperLetters) : UpperLetters[k] = c]
    ELSE c

\* str.lower()
Lower(s) == [k \in 1..Len(s) |-> LowerChar(s[k])]

\* re.sub(r'[^\w\s]', '', s)
RECURSIVE StripSpecial(_)
StripSpecial(s) ==
    IF s = <<>> THEN <<>>
    ELSE IF Head(s) \in WordChars \cup SpaceChars
         THEN <<Head(s)>> \o StripSpecial(Tail(s))
         ELSE StripSpecial(Tail(s))

\* re.sub(r'\s+', ' ', s): of a run of whitespace the last character is
\* kept, as a space
CollapseSpaces(s) ==
    LET kept == SelectSeq([k \in 1..Len(s) |-> k],
                          LAMBDA k : \/ s[k] \notin SpaceChars
                                     \/ k = Len(s)
                                     \/ s[k + 1] \notin SpaceChars)
    IN [j \in 1..Len(kept) |->
           IF s[kept[j]] \in SpaceChars THEN " " ELSE s[kept[j]]]

RECURSIVE LStrip(_)
LStrip(s) ==
    IF s # <<>> /\ Head(s) \in SpaceChars THEN LStrip(Tail(s)) ELSE s

RECURSIVE RStrip(_)
RStrip(s) ==
    IF s # <<>> /\ s[Len(s)] \in SpaceChars
    THEN RStrip(SubSeq(s, 1, Len(s) - 1))
    ELSE s

\* str.strip()
Strip(s) == RStrip(LStrip(s))

normalize_event_name(name) ==
    IF ~Truthy(name) THEN EmptyStr
    ELSE Strip(CollapseSpaces(StripSpecial(Lower(name))))

(***************************************************************************)
(* events_match                                                            *)
(***************************************************************************)
\* a in b, for strings
IsSubstring(a, b) ==
    \E k \in 0..(Len(b) - Len(a)) : SubSeq(b, k + 1, k + Len(a)) = a

\* set(s.split()): the words of s, split at runs of whitespace
RECURSIVE SplitWords(_, _)
SplitWords(s, cur) ==
    IF s = <<>> THEN (IF cur = <<>> THEN {} ELSE {cur})
    ELSE IF Head(s) \in SpaceChars
         THEN (IF cur = <<>> THEN {} ELSE {cur}) \cup SplitWords(Tail(s), <<>>)
         ELSE SplitWords(Tail(s), Append(cur, Head(s)))

WordSet(s) == SplitWords(s, <<>>)

Max(a, b) == IF a >= b THEN a ELSE b

\* faulty variant of OverlapAtLeastHalf: overlap > 0.5
OverlapMoreThanHalf(words1, words2) ==
    2 * Cardinality(words1 \cap words2) >
        Max(Cardinality(words1), Cardinality(words2))

\* len(words1 & words2) / max(len(words1), len(words2)) >= 0.5
OverlapAtLeastHalf(words1, words2) ==
    2 * Cardinality(words1 \cap words2) >=
        Max(Cardinality(words1), Cardinality(words2))

\* faulty variant of name_match: only name1 in name2 is tested and the
\* overlap is measured against the words of name1
name_match_one_way(name1, name2) ==
    IF name1 # EmptyStr /\ name2 # EmptyStr
    THEN IF IsSubstring(name1, name2)
         THEN TRUE
         ELSE LET words1 == WordSet(name1)
                  words2 == WordSet(name2)
              IN IF words1 # {} /\ words2 # {}
                 THEN 2 * Cardinality(words1 \cap words2) >= Cardinality(words1)
                 ELSE FALSE
    ELSE FALSE

name_match(name1, name2) ==
    IF name1 # EmptyStr /\ name2 # EmptyStr
    THEN IF IsSubstring(name1, name2) \/ IsSubstring(name2, name1)
         THEN TRUE
         ELSE LET words1 == WordSet(name1)
                  words2 == WordSet(name2)
              IN IF words1 # {} /\ words2 # {}
                 THEN OverlapAtLeastHalf(words1, words2)
                 ELSE FALSE
    ELSE FALSE

date_match(date1, date2) ==
    IF Truthy(date1) /\ Truthy(date2) THEN date1 = date2 ELSE FALSE

\* faulty variant of venue_match: two empty venues count as equal
venue_match_empty(venue1, venue2) == venue1 = venue2

venue_match(venue1, venue2) ==
    IF venue1 # EmptyStr /\ venue2 # EmptyStr THEN venue1 = venue2 ELSE FALSE

events_match(event1, event2) ==
    LET name1 == normalize_event_name(GetStr(event1, "name"))
        name2 == normalize_event_name(GetStr(event2, "name"))
        date1 == GetStr(event1, "date")
        date2 == GetStr(event2, "date")
        venue1 == normalize_event_name(GetStr(event1, "venueName"))
        venue2 == normalize_event_name(GetStr(event2, "venueName"))
    IN name_match(name1, name2)
         /\ (date_match(date1, date2) \/ venue_match(venue1, venue2))

(***************************************************************************)
(* merge_events                                                            *)
(***************************************************************************)
\* faulty variant of ListCopy: merged = [] instead of a copy
ListCopyEmpty(l) == <<>>

\* existing_events.copy(): a list with the same dicts in the same order
ListCopy(l) == l

\* faulty variant of CopyIsOwnList: merged = existing_events, one list under two
\* names
CopyIsAlias == FALSE

\* ... and a list object of its own: appending to merged does not append to
\* the caller's existing_events
CopyIsOwnList == TRUE

\* for key, value in new_event.items():
\*     if value and not existing_event.get(key): existing_event[key] = value
FillKeys(existing_event, new_event) ==
    {key \in DOMAIN new_event :
        Truthy(new_event[key]) /\ ~Truthy(Get(existing_event, key))}

\* faulty variant of FillMissing: every non-empty value of the new event is copied,
\* also over a value the existing event holds
FillOverwrite(existing_event, new_event) ==
    [key \in DOMAIN existing_event \cup FillKeys(existing_event, new_event) |->
        IF key \in DOMAIN new_event /\ Truthy(new_event[key])
        THEN new_event[key]
        ELSE existing_event[key]]

FillMissing(existing_event, new_event) ==
    [key \in DOMAIN existing_event \cup FillKeys(existing_event, new_event) |->
        IF key \in FillKeys(existing_event, new_event)
        THEN new_event[key]
        ELSE existing_event[key]]

\* the indices of m whose dict matches new_event
MatchingIndices(h, m, new_event) ==
    {x \in 1..Len(m) : events_match(new_event, h[m[x]])}

Min(S) == CHOOSE x \in S : \A y \in S : x <= y

Highest(S) == CHOOSE x \in S : \A y \in S : x >= y

\* faulty variant of FirstMatch: the inner loop without its break ends on the last
\* index that matches
LastMatch(h, m, new_event) ==
    IF MatchingIndices(h, m, new_event) = {}
    THEN 0
    ELSE Highest(MatchingIndices(h, m, new_event))

\* the inner loop stops at the first index that matches (break)
FirstMatch(h, m, new_event) ==
    IF MatchingIndices(h, m, new_event) = {}
    THEN 0
    ELSE Min(MatchingIndices(h, m, new_event))

\* one iteration of "for new_event in new_events"
MergeOne(h, m, ref) ==
    LET new_event == h[ref]
        x == FirstMatch(h, m, new_event)
    IN IF x # 0
       THEN [heap |-> [h EXCEPT ![m[x]] = FillMissing(h[m[x]], new_event)],
             merged |-> m]
       ELSE [heap |-> h, merged |-> Append(m, ref)]

RECURSIVE MergeLoop(_, _, _, _)
MergeLoop(h, m, news, k) ==
    IF k > Len(news)
    THEN [heap |-> h, merged |-> m]
    ELSE MergeLoop(MergeOne(h, m, news[k]).heap,
                   MergeOne(h, m, news[k]).merged, news, k + 1)

\* the whole call: the dicts and the returned list
merge_events(h, existing, news) == MergeLoop(h, ListCopy(existing), news, 1)

(***************************************************************************)
(* The event dicts of a run                                                *)
(***************************************************************************)
AbsentKey == <<"absent">>

D1 == <<"2025-11-23">>

D2 == <<"2025-11-24">>

MkEvent(name, date, venue) ==
    [key \in {"name", "venueName", "source"}
            \cup (IF date = AbsentKey THEN {} ELSE {"date"}) |->
        CASE key = "name" -> name
          [] key = "date" -> date
          [] key = "venueName" -> venue
          [] OTHER -> <<"queer.paris">>]

EventNames == {<<"B">>, <<"b", "!">>}

EventDates == {AbsentKey, D1}

EventVenues == {None, <<"V">>, <<"W">>}

EventDicts ==
    {MkEvent(n, d, v) : n \in EventNames, d \in EventDates, v \in EventVenues}

Range(f) == {f[x] : x \in DOMAIN f}

(***************************************************************************)
(* main (merge and counts) and merge_events, step by step                  *)
(***************************************************************************)
MatchIdle ==
    /\ ev1 = MkEvent(<<"B">>, AbsentKey, None)
    /\ ev2 = MkEvent(<<"B">>, AbsentKey, None)
    /\ mpc = "idle"
    /\ match_result = FALSE

Init ==
    /\ \E k \in 0..MaxEvents : \E n \in 0..(MaxEvents - k) :
         /\ heap \in [1..(k + n) -> EventDicts]
         /\ existing_events = [x \in 1..k |-> x]
         /\ new_events = [x \in 1..n |-> k + x]
    /\ merged = <<>>
    /\ pc = "main_merge"
    /\ i = 0
    /\ heap0 = heap
    /\ lastMatches = {}
    /\ lastMerged = <<>>
    /\ lastHeap = heap
    /\ unmatched = <<>>
    /\ new_count = 0
    /\ updated_count = 0
    /\ MatchIdle
    /\ ToolsIdle

\* main calls merge_events; merged = existing_events.copy()
MergeCall ==
    /\ pc = "main_merge"
    /\ merged' = ListCopy(existing_events)
    /\ i' = 1
    /\ pc' = "merge_loop"
    /\ UNCHANGED <<heap, existing_events, new_events, heap0, lastMatches,
                   lastMerged, lastHeap, unmatched, new_count, updated_count>>
    /\ UNCHANGED matchVars
    /\ UNCHANGED toolVars

\* one iteration of the outer loop
MergeIter ==
    /\ pc = "merge_loop"
    /\ i <= Len(new_events)
    /\ heap' = MergeOne(heap, merged, new_events[i]).heap
    /\ merged' = MergeOne(heap, merged, new_events[i]).merged
    /\ lastMatches' = MatchingIndices(heap, merged, heap[new_events[i]])
    /\ lastMerged' = merged
    /\ lastHeap' = heap
    /\ unmatched' =
         IF MatchingIndices(heap, merged, heap[new_events[i]]) = {}
         THEN Append(unmatched, new_events[i])
         ELSE unmatched
    /\ existing_events' = IF CopyIsOwnList THEN existing_events ELSE merged'
    /\ i' = i + 1
    /\ UNCHANGED <<new_events, pc, heap0, new_count, updated_count>>
    /\ UNCHANGED matchVars
    /\ UNCHANGED toolVars

\* return merged; main computes its counts
MergeReturn ==
    /\ pc = "merge_loop"
    /\ i > Len(new_events)
    /\ new_count' = Len(merged) - Len(existing_events)
    /\ updated_count' = Len(new_events) - (Len(merged) - Len(existing_events))
    /\ pc' = "done"
    /\ UNCHANGED <<heap, existing_events, new_events, merged, i, heap0,
                   lastMatches, lastMerged, lastHeap, unmatched>>
    /\ UNCHANGED matchVars
    /\ UNCHANGED toolVars

Next == MergeCall \/ MergeIter \/ MergeReturn

Spec == Init /\ [][Next]_vars

(***************************************************************************)
(* Claims about merge_events (specification Spec)                          *)
(***************************************************************************)
\* the records of a list, in order
Records(h, l) == [x \in 1..Len(l) |-> h[l[x]]]

\* number of dicts loaded from the input file
LoadedCount == Len(heap) - Len(new_events)

Loaded == 1..LoadedCount

\* the event merge_events processed in its last iteration, as it was then
LastNew == lastHeap[new_events[i - 1]]

Iterated == pc \in {"merge_loop", "done"} /\ i > 1

\* C1: re-merging the same new events into the merged catalog appends
\* nothing and fills nothing.
C1_MergeIdempotent ==
    pc = "done" =>
        /\ merge_events(heap, merged, new_events).merged = merged
        /\ merge_events(heap, merged, new_events).heap = heap

\* C2: a field that an existing record held (non-empty) when merge_events was
\* called holds the same value during and after the merge, whatever the new
\* records carry.
C2_FillMissingKeepsSetFields ==
    \A x \in Loaded : \A key \in DOMAIN heap0[x] :
        Truthy(heap0[x][key]) =>
            key \in DOMAIN heap[x] /\ heap[x][key] = heap0[x][key]

\* a new event matched a loaded record that holds another non-empty value
\* than the new event for some key
C2_Witness ==
    /\ Iterated
    /\ lastMatches # {}
    /\ lastMerged[Min(lastMatches)] \in Loaded
    /\ \E key \in DOMAIN LastNew :
         /\ Truthy(LastNew[key])
         /\ Truthy(Get(heap0[lastMerged[Min(lastMatches)]], key))
         /\ LastNew[key] # heap0[lastMerged[Min(lastMatches)]][key]

NoDuplicates(recs) ==
    \A x, y \in 1..Len(recs) : x # y => ~events_match(recs[x], recs[y])

\* C3: merging into a catalog without duplicates gives a catalog without
\* duplicates: no two records at different positions satisfy events_match.
C3_NoDuplicateAfterMerge ==
    (pc = "done" /\ NoDuplicates(Records(heap0, existing_events)))
        => NoDuplicates(Records(heap, merged))

ListPermutations(l) ==
    {[x \in 1..Len(l) |-> l[f[x]]] :
        f \in {g \in [1..Len(l) -> 1..Len(l)] :
                 \A a, b \in 1..Len(l) : a # b => g[a] # g[b]}}

Occurrences(l, v) == Cardinality({x \in 1..Len(l) : l[x] = v})

SameCollection(l1, l2) ==
    /\ Len(l1) = Len(l2)
    /\ \A v \in Range(l1) \cup Range(l2) : Occurrences(l1, v) = Occurrences(l2, v)

\* the records a merge appended after the n existing ones
AppendedRecords(r, n) ==
    [x \in 1..(Len(r.merged) - n) |-> r.heap[r.merged[n + x]]]

\* C7: merging any permutation of the new events gives the same values on
\* the existing records and the same collection of appended records.
C7_OrderIndependent ==
    pc = "done" =>
        \A p \in ListPermutations(new_events) :
            /\ \A x \in Loaded :
                 merge_events(heap0, existing_events, p).heap[x] = heap[x]
            /\ SameCollection(
                 AppendedRecords(merge_events(heap0, existing_events, p),
                                 LoadedCount),
                 AppendedRecords([heap |-> heap, merged |-> merged],
                                 LoadedCount))

\* C8: when the new event matches several records of the catalog, only the
\* matching record of lowest index may change, it receives the fill, and
\* nothing is appended.
C8_FirstMatchWins ==
    (Iterated /\ Cardinality(lastMatches) >= 2) =>
        /\ merged = lastMerged
        /\ \A x \in 1..Len(heap) :
             x # lastMerged[Min(lastMatches)] => heap[x] = lastHeap[x]
        /\ \A key \in DOMAIN LastNew :
             (Truthy(LastNew[key])
                /\ ~Truthy(Get(lastHeap[lastMerged[Min(lastMatches)]], key)))
               => Get(heap[lastMerged[Min(lastMatches)]], key) = LastNew[key]

\* the new event matched two records and filled a field of the first
C8_Witness ==
    /\ Iterated
    /\ Cardinality(lastMatches) >= 2
    /\ heap[lastMerged[Min(lastMatches)]]
         # lastHeap[lastMerged[Min(lastMatches)]]

\* what merge_events keeps whatever the records: the existing records stay
\* at their indices, the unmatched new events follow in input order, the
\* caller's list keeps its length, and main's counts are the numbers of
\* unmatched and of matched new events
MergeShape ==
    /\ Len(merged) = LoadedCount + Len(unmatched)
    /\ \A x \in Loaded : merged[x] = x
    /\ \A x \in 1..Len(unmatched) : merged[LoadedCount + x] = unmatched[x]
    /\ \A x, y \in 1..Len(unmatched) :
         x < y => unmatched[x] < unmatched[y]
    /\ Len(existing_events) = LoadedCount
    /\ new_count = Len(unmatched)
    /\ updated_count = Len(new_events) - Len(unmatched)

\* C9 as stated: ... and the unmatched new events appear with their fields
\* as given.
C9_MergeShapeAsGiven ==
    pc = "done" =>
        /\ MergeShape
        /\ \A x \in 1..Len(unmatched) : heap[unmatched[x]] = heap0[unmatched[x]]

\* C9 (amended): merge_events never removes or reorders records; the result
\* has the existing records at their indices followed by the unmatched new
\* events in input order; an appended event keeps every non-empty field it
\* was given (its empty fields may be filled by a later new event that
\* matches it); the caller's list keeps its length and main's counts are the
\* numbers of unmatched and matched new events.
C9_MergeShape ==
    pc = "done" =>
        /\ MergeShape
        /\ \A x \in 1..Len(unmatched) :
             \A key \in DOMAIN heap0[unmatched[x]] :
                /\ key \in DOMAIN heap[unmatched[x]]
                /\ Truthy(heap0[unmatched[x]][key]) =>
                     heap[unmatched[x]][key] = heap0[unmatched[x]][key]

\* a run with an existing record, a matched and an unmatched new event, in
\* which a later new event filled a field of an appended one
C9_Witness ==
    /\ pc = "done"
    /\ LoadedCount >= 1
    /\ new_count >= 1
    /\ updated_count >= 1
    /\ \E x \in 1..Len(unmatched) : heap[unmatched[x]] # heap0[unmatched[x]]

\* C10: merging an empty batch returns the same records in the same order
\* with the same keys and values.
C10_EmptyBatchRoundTrip ==
    (pc = "done" /\ new_events = <<>>) =>
        /\ Len(merged) = Len(existing_events)
        /\ Records(heap, merged) = Records(heap0, existing_events)
        /\ \A x \in 1..Len(merged) :
             DOMAIN heap[merged[x]] = DOMAIN heap0[existing_events[x]]

\* an empty batch merged into a catalog of several records, one with a key
\* absent and one with a null value
C10_Witness ==
    /\ pc = "done"
    /\ new_events = <<>>
    /\ Len(merged) >= 2
    /\ \E x \in 1..Len(merged) : "date" \notin DOMAIN heap[merged[x]]
    /\ \E x \in 1..Len(merged) : heap[merged[x]]["venueName"] = None
    /\ \E x \in 1..Len(merged) : "date" \in DOMAIN heap[merged[x]]

(***************************************************************************)
(* Calls of events_match on two event dicts                                *)
(***************************************************************************)
MergeIdle ==
    /\ heap = <<>>
    /\ existing_events = <<>>
    /\ new_events = <<>>
    /\ merged = <<>>
    /\ pc = "idle"
    /\ i = 0
    /\ heap0 = <<>>
    /\ lastMatches = {}
    /\ lastMerged = <<>>
    /\ lastHeap = <<>>
    /\ unmatched = <<>>
    /\ new_count = 0
    /\ updated_count = 0

RawWords == {<<"a">>, <<"A", "!">>, <<"b">>, <<"c">>, <<"-">>}

RECURSIVE JoinWords(_)
JoinWords(ws) ==
    IF ws = <<>> THEN <<>>
    ELSE IF Len(ws) = 1 THEN ws[1]
    ELSE ws[1] \o <<" ">> \o JoinWords(Tail(ws))

\* names of up to MaxWords words, single spaces between them
WordNames ==
    {JoinWords(ws) : ws \in UNION {[1..n -> RawWords] : n \in 0..MaxWords}}

\* both dicts carry the same date, so that the name decides the result
NameEvents == {MkEvent(n, D1, None) : n \in WordNames}

MatchNames == {EmptyStr, <<"B">>, <<"b", "!">>, <<"X">>, <<"-">>}

MatchDates == {AbsentKey, EmptyStr, D1, D2}

MatchVenues == {None, <<"V">>, <<"v", ".">>, <<"W">>, <<"-">>}

MatchEvents ==
    {MkEvent(n, d, v) : n \in MatchNames, d \in MatchDates, v \in MatchVenues}

InitNames ==
    /\ ev1 \in NameEvents
    /\ ev2 \in NameEvents
    /\ mpc = "call"
    /\ match_result = FALSE
    /\ MergeIdle
    /\ ToolsIdle

InitMatch ==
    /\ ev1 \in MatchEvents
    /\ ev2 \in MatchEvents
    /\ mpc = "call"
    /\ match_result = FALSE
    /\ MergeIdle
    /\ ToolsIdle

\* events_match(ev1, ev2) runs and returns
Match ==
    /\ mpc = "call"
    /\ match_result' = events_match(ev1, ev2)
    /\ mpc' = "return"
    /\ UNCHANGED <<ev1, ev2>>
    /\ UNCHANGED mergeVars
    /\ UNCHANGED toolVars

NextMatch == Match

SpecNames == InitNames /\ [][NextMatch]_vars

SpecMatch == InitMatch /\ [][NextMatch]_vars

(***************************************************************************)
(* Claims about events_match (specifications SpecNames and SpecMatch)      *)
(***************************************************************************)
\* the words of a string: its maximal runs of non-space characters
WordsOf(s) ==
    {SubSeq(s, a, b) : <<a, b>> \in
        {p \in (1..Len(s)) \X (1..Len(s)) :
            /\ p[1] <= p[2]
            /\ \A k \in p[1]..p[2] : s[k] \notin SpaceChars
            /\ (p[1] = 1 \/ s[p[1] - 1] \in SpaceChars)
            /\ (p[2] = Len(s) \/ s[p[2] + 1] \in SpaceChars)}}

\* the words of a string in order
RECURSIVE WordSeq(_, _)
WordSeq(s, cur) ==
    IF s = <<>> THEN (IF cur = <<>> THEN <<>> ELSE <<cur>>)
    ELSE IF Head(s) \in SpaceChars
         THEN (IF cur = <<>> THEN <<>> ELSE <<cur>>) \o WordSeq(Tail(s), <<>>)
         ELSE WordSeq(Tail(s), Append(cur, Head(s)))

IsKept(c) == c \in WordChars \cup SpaceChars

\* the normalized name as the claims describe it: lowercased, every
\* character but letters, digits, underscore and whitespace removed, then
\* the words joined by single spaces
NormalizedName(e, key) ==
    IF ~Truthy(Get(e, key)) THEN <<>>
    ELSE JoinWords(WordSeq(SelectSeq(Lower(e[key]), IsKept), <<>>))

SubstringEitherWay(n1, n2) ==
    \/ \E a \in 0..Len(n2) : \E b \in a..Len(n2) : SubSeq(n2, a + 1, b) = n1
    \/ \E a \in 0..Len(n1) : \E b \in a..Len(n1) : SubSeq(n1, a + 1, b) = n2

\* |words_a intersect words_b| / max(|words_a|, |words_b|) >= 1/2
HalfOverlap(n1, n2) ==
    /\ WordsOf(n1) # {} \/ WordsOf(n2) # {}
    /\ 2 * Cardinality(WordsOf(n1) \cap WordsOf(n2))
         >= Max(Cardinality(WordsOf(n1)), Cardinality(WordsOf(n2)))

SimilarAsStated(n1, n2) == SubstringEitherWay(n1, n2) \/ HalfOverlap(n1, n2)

Similar(n1, n2) == n1 # <<>> /\ n2 # <<>> /\ SimilarAsStated(n1, n2)

Returned == mpc = "return"

\* the two dicts carry the same non-empty date: the name decides
SameDate == Truthy(Get(ev1, "date")) /\ Get(ev1, "date") = Get(ev2, "date")

\* C4: events_match is true exactly when the names are similar and (both
\* dates are non-empty and equal, or both normalized venues are non-empty
\* and equal); no date and no venue on both sides never matches; names that
\* are not similar never match.
C4_DecisionRule ==
    Returned =>
        /\ match_result <=>
             /\ Similar(NormalizedName(ev1, "name"), NormalizedName(ev2, "name"))
             /\ \/ /\ Truthy(Get(ev1, "date"))
                   /\ Truthy(Get(ev2, "date"))
                   /\ Get(ev1, "date") = Get(ev2, "date")
                \/ /\ NormalizedName(ev1, "venueName") # <<>>
                   /\ NormalizedName(ev2, "venueName") # <<>>
                   /\ NormalizedName(ev1, "venueName")
                        = NormalizedName(ev2, "venueName")
        /\ (/\ ~Truthy(Get(ev1, "date")) /\ ~Truthy(Get(ev2, "date"))
            /\ ~Truthy(Get(ev1, "venueName")) /\ ~Truthy(Get(ev2, "venueName")))
             => ~match_result
        /\ ~Similar(NormalizedName(ev1, "name"), NormalizedName(ev2, "name"))
             => ~match_result

\* a match by venue alone: two different dates, venues that differ as
\* written and are equal once normalized, names that differ as written
C4_Witness ==
    /\ Returned
    /\ match_result
    /\ Truthy(Get(ev1, "date")) /\ Truthy(Get(ev2, "date"))
    /\ Get(ev1, "date") # Get(ev2, "date")
    /\ Get(ev1, "venueName") # Get(ev2, "venueName")
    /\ Get(ev1, "name") # Get(ev2, "name")

C6_Reflexive ==
    (/\ Returned
     /\ ev1 = ev2
     /\ Truthy(Get(ev1, "name"))
     /\ Truthy(Get(ev1, "date")) \/ Truthy(Get(ev1, "venueName")))
        => match_result

(***************************************************************************)
(* Files: what open() and the json module see                              *)
(***************************************************************************)
\* a file that holds the complete JSON text of a list of dicts
json_dump(recs) == [kind |-> "catalog", events |-> recs]

\* json.load of such a file
json_load(file) == file.events

\* open(path, 'w') has truncated the file and nothing is written yet
Truncated == [kind |-> "empty", events |-> <<>>]

\* json.dump stopped after the first n dicts
PartialDump(recs, n) == [kind |-> "partial", events |-> SubSeq(recs, 1, n)]

(***************************************************************************)
(* enrich_event_descriptions (eventsearch/enrich_descriptions.py)          *)
(***************************************************************************)
\* a URL is the sequence of its origin and its path
BadLink == <<"https://shotgun.live", "/fr/events/la-dimanche">>

ShotgunLink == <<"https://shotgun.live", "/fr/events/bbb">>

OtherLink == <<"https://dice.fm", "/bbb">>

bad_links == <<BadLink>>

\* x in l, for a list
InList(x, l) == \E k \in 1..Len(l) : l[k] = x

\* str.startswith
StartsWith(s, prefix) ==
    Len(s) >= Len(prefix) /\ SubSeq(s, 1, Len(prefix)) = prefix

\* d[key] = v
SetKey(d, key, v) == [x \in DOMAIN d \cup {key} |-> IF x = key THEN v ELSE d[x]]

OldDescription == <<"old description">>

\* the formatted description of the page of the ticket link
FormattedDescription == <<"formatted description">>

\* what the page of a ticket link does: the try block raises, no description
\* can be extracted or formatted, or a formatted description comes out
PageOutcomes == {"error", "none", "description"}

\* the event is fetched: its link is not a bad link and is a shotgun.live link
IsFetched(event) ==
    /\ ~InList(GetStr(event, "ticketLink"), bad_links)
    /\ Truthy(GetStr(event, "ticketLink"))
    /\ StartsWith(GetStr(event, "ticketLink"), <<"https://shotgun.live">>)

\* faulty variant of EnrichDescription: an error drops the description
EnrichDescriptionLosing(event, outcome) ==
    IF InList(GetStr(event, "ticketLink"), bad_links)
    THEN SetKey(event, "ticketLink", EmptyStr)
    ELSE IF ~IsFetched(event) THEN event
    ELSE IF outcome = "description"
         THEN SetKey(event, "description", FormattedDescription)
         ELSE IF outcome = "error"
              THEN SetKey(event, "description", EmptyStr)
              ELSE event

\* the body of the loop for one event
EnrichDescription(event, outcome) ==
    IF InList(GetStr(event, "ticketLink"), bad_links)
    THEN SetKey(event, "ticketLink", EmptyStr)
    ELSE IF ~Truthy(GetStr(event, "ticketLink"))
            \/ ~StartsWith(GetStr(event, "ticketLink"), <<"https://shotgun.live">>)
         THEN event
         ELSE IF outcome = "description"
              THEN SetKey(event, "description", FormattedDescription)
              ELSE event

MkDescEvent(link, desc) ==
    [key \in {"name"} \cup (IF link = AbsentKey THEN {} ELSE {"ticketLink"})
                      \cup (IF desc = AbsentKey THEN {} ELSE {"description"}) |->
        CASE key = "name" -> <<"B">>
          [] key = "ticketLink" -> link
          [] OTHER -> desc]

DescLinks == {AbsentKey, None, BadLink, ShotgunLink, OtherLink}

DescDescriptions == {AbsentKey, OldDescription}

DescEvents == {MkDescEvent(l, d) : l \in DescLinks, d \in DescDescriptions}

DescCatalogs == UNION {[1..n -> DescEvents] : n \in 0..MaxEvents}

InitDesc ==
    /\ json_file \in {json_dump(c) : c \in DescCatalogs}
                     \cup {[kind |-> "invalid", events |-> <<>>]}
    /\ json_file0 = json_file
    /\ events = <<>>
    /\ events0 = <<>>
    /\ eprev = <<>>
    /\ ei = 0
    /\ epc = "load"
    /\ failed = {}
    /\ MergeIdle /\ MatchIdle
    /\ MainIdle /\ DateIdle /\ HomeIdle /\ FormatIdle /\ MoreIdle

descRest == <<mergeVars, matchVars, mainVars, dateVars, homeVars, formatVars,
             moreVars>>

\* with open(json_file_path, 'r') as f: events = json.load(f)
DescLoad ==
    /\ epc = "load"
    /\ IF json_file.kind = "catalog"
       THEN /\ events' = json_load(json_file)
            /\ epc' = "launch"
       ELSE /\ events' = events
            /\ epc' = "crashed"
    /\ events0' = events'
    /\ eprev' = events'
    /\ UNCHANGED <<json_file, json_file0, ei, failed>>
    /\ UNCHANGED descRest

\* playwright.chromium.launch and browser.new_context, outside every try
DescLaunch ==
    /\ epc = "launch"
    /\ \E ok \in BOOLEAN : epc' = IF ok THEN "loop" ELSE "crashed"
    /\ ei' = 1
    /\ UNCHANGED <<json_file, json_file0, events, events0, eprev, failed>>
    /\ UNCHANGED descRest

\* one iteration of the loop over events
DescIter ==
    /\ epc = "loop"
    /\ ei <= Len(events)
    /\ \E outcome \in PageOutcomes :
         /\ events' = [events EXCEPT ![ei] = EnrichDescription(events[ei], outcome)]
         /\ failed' = IF IsFetched(events[ei]) /\ outcome = "error"
                      THEN failed \cup {ei}
                      ELSE failed
    /\ eprev' = events
    /\ ei' = ei + 1
    /\ UNCHANGED <<json_file, json_file0, events0, epc>>
    /\ UNCHANGED descRest

\* browser.close() after the loop
DescClose ==
    /\ epc = "loop"
    /\ ei > Len(events)
    /\ epc' = "open"
    /\ UNCHANGED <<json_file, json_file0, events, events0, eprev, ei, failed>>
    /\ UNCHANGED descRest

\* open(json_file_path, 'w'): raises, or truncates the file
DescOpen ==
    /\ epc = "open"
    /\ \E ok \in BOOLEAN :
         IF ok
         THEN json_file' = Truncated /\ epc' = "dump"
         ELSE json_file' = json_file /\ epc' = "crashed"
    /\ UNCHANGED <<json_file0, events, events0, eprev, ei, failed>>
    /\ UNCHANGED descRest

\* json.dump(events, f): completes, or raises after n dicts
DescDump ==
    /\ epc = "dump"
    /\ \/ json_file' = json_dump(events) /\ epc' = "done"
       \/ \E n \in 0..Max(0, Len(events) - 1) :
            json_file' = PartialDump(events, n) /\ epc' = "crashed"
    /\ UNCHANGED <<json_file0, events, events0, eprev, ei, failed>>
    /\ UNCHANGED descRest

NextDesc ==
    DescLoad \/ DescLaunch \/ DescIter \/ DescClose \/ DescOpen \/ DescDump

SpecDesc == InitDesc /\ [][NextDesc]_vars

(***************************************************************************)
(* Claims about enrich_event_descriptions (specification SpecDesc)         *)
(***************************************************************************)
\* C11: a field of an event record that holds a non-empty value never becomes
\* empty or absent: after every iteration of the loop of
\* enrich_event_descriptions, every key that had a non-empty value before the
\* iteration still has one.
C11_FieldsNeverCleared ==
    epc \in {"loop", "open", "dump", "done"} =>
        \A j \in 1..Len(events) : \A key \in DOMAIN eprev[j] :
            Truthy(eprev[j][key]) => Truthy(Get(events[j], key))

\* C14: when the page of one event raises, that event keeps every field value
\* it had, the loop goes on with the next event, and the catalog written at the
\* end holds all events, the failed ones as they were read.
C14_FailedEventKeepsState ==
    /\ \A j \in failed :
         /\ events[j] = events0[j]
         /\ ei > j
         /\ (epc \in {"open", "dump", "done"} => ei = Len(events0) + 1)
    /\ epc = "done" =>
         /\ json_file.kind = "catalog"
         /\ Len(json_load(json_file)) = Len(events0)
         /\ \A j \in failed : json_load(json_file)[j] = events0[j]

\* the page of an event that has a description raised, a later event got a
\* new description, and the file is written
C14_Witness ==
    /\ epc = "done"
    /\ \E j \in failed : \E x \in (j + 1)..Len(events0) :
         /\ Truthy(Get(events0[j], "description"))
         /\ json_load(json_file)[j] = events0[j]
         /\ json_load(json_file)[x] # events0[x]

(***************************************************************************)
(* main (eventsearch/extract_events.py), step by step, with the two        *)
(* enrichment functions of orchestrate_event_extraction.py it calls        *)
(***************************************************************************)
\* number of events the homepage extraction returns in one run
MaxBatch == 2

ImageUrl == <<"https://res.cloudinary.com", "/artworks/bbb">>

QueerUrl == <<"https://queer.paris", "/bbb">>

\* what search_event_on_shotgun and the description page do for one event:
\* the search raises (browser launch, or its own error handler), or returns
\* (None, None), or a link with or without an image and a description
ShotgunOutcomes ==
    {[raises |-> TRUE, ticket_link |-> None, image_url |-> None, description |-> None],
     [raises |-> FALSE, ticket_link |-> None, image_url |-> None, description |-> None],
     [raises |-> FALSE, ticket_link |-> ShotgunLink, image_url |-> None,
      description |-> None],
     [raises |-> FALSE, ticket_link |-> ShotgunLink, image_url |-> ImageUrl,
      description |-> FormattedDescription]}

\* enrich_event_from_shotgun when the search returns
enrich_event_from_shotgun(event, found) ==
    LET e1 == IF Truthy(found.ticket_link)
              THEN SetKey(event, "ticketLink", found.ticket_link) ELSE event
        e2 == IF Truthy(found.image_url)
              THEN SetKey(e1, "imageUrl", found.image_url) ELSE e1
    IN IF Truthy(found.ticket_link) /\ Truthy(found.description)
       THEN SetKey(e2, "description", found.description)
       ELSE e2

\* what extract_event_info_from_queerparis returns ({} when it fails), and
\* what translator.translate does with the description: it raises, or it
\* returns a text
QueerInfos ==
    {[info |-> [x \in {} |-> None],
      translation |-> [raises |-> FALSE, text |-> <<>>]],
     [info |-> [description |-> OldDescription, address |-> <<"1 rue X, Paris">>,
                ticketLink |-> OtherLink],
      translation |-> [raises |-> FALSE, text |-> <<"translated description">>]],
     [info |-> [description |-> OldDescription, address |-> <<"1 rue X, Paris">>,
                ticketLink |-> OtherLink],
      translation |-> [raises |-> TRUE, text |-> <<>>]]}

\* if info.get(key) and not event.get(key): event[key] = info[key]
FillFromInfo(event, info, key) ==
    IF Truthy(Get(info, key)) /\ ~Truthy(Get(event, key))
    THEN SetKey(event, key, info[key])
    ELSE event

\* the faulty variant of enrich_event_from_queerparis that sets every field
\* the detail page gives
enrich_event_from_queerparis_overwriting(event, got) ==
    IF ~Truthy(Get(event, "queerParisUrl")) THEN event
    ELSE [key \in DOMAIN event \cup {k \in DOMAIN got.info : Truthy(got.info[k])} |->
             IF Truthy(Get(got.info, key)) THEN got.info[key] ELSE event[key]]

\* enrich_event_from_queerparis: the description is set from the translation,
\* or from the text of the page when the translator raises (lines 275-282)
enrich_event_from_queerparis(event, got) ==
    IF ~Truthy(Get(event, "queerParisUrl")) THEN event
    ELSE LET e1 == IF Truthy(Get(got.info, "description"))
                      /\ ~Truthy(Get(event, "description"))
                   THEN SetKey(event, "description",
                               IF got.translation.raises
                               THEN got.info["description"]
                               ELSE got.translation.text)
                   ELSE event
         IN FillFromInfo(FillFromInfo(FillFromInfo(FillFromInfo(e1,
                got.info, "address"), got.info, "price"), got.info, "ticketLink"),
                got.info, "instagram")

\* the dicts the homepage extraction builds, with and without a detail URL
MainNewEvents ==
    {SetKey(MkEvent(<<"B">>, D1, None), "queerParisUrl", u) : u \in {None, QueerUrl}}

MainBatches == UNION {[1..n -> MainNewEvents] : n \in 0..MaxBatch}

\* the catalog in the input file, when there is one
MainCatalog == <<SetKey(MkEvent(<<"B">>, D1, <<"V">>), "ticketLink", OtherLink)>>

InitMain ==
    /\ input_file \in {NoFile, [kind |-> "unreadable", events |-> <<>>],
                       [kind |-> "invalid", events |-> <<>>], json_dump(MainCatalog)}
    /\ output_file \in {NoFile, json_dump(MainCatalog)}
    /\ output_file0 = output_file
    /\ args \in [skip_shotgun : BOOLEAN, skip_queerparis : BOOLEAN, dry_run : BOOLEAN]
    /\ exit_code = -1
    /\ browser = "none"
    /\ raised_at = 0
    /\ enriched = {}
    /\ steps = {}
    /\ heap = <<>>
    /\ existing_events = <<>>
    /\ new_events = <<>>
    /\ merged = <<>>
    /\ pc = "load"
    /\ i = 0
    /\ heap0 = <<>>
    /\ lastMatches = {}
    /\ lastMerged = <<>>
    /\ lastHeap = <<>>
    /\ unmatched = <<>>
    /\ new_count = 0
    /\ updated_count = 0
    /\ MatchIdle /\ DescIdle /\ DateIdle /\ HomeIdle /\ FormatIdle /\ MoreIdle

mainRest == <<heap0, lastMatches, lastMerged, lastHeap, unmatched, matchVars,
              descVars, dateVars, homeVars, formatVars, moreVars, input_file,
              output_file0, args>>

\* the step after the shotgun loop
AfterShotgun == IF args.skip_queerparis THEN "close" ELSE "queerparis"

\* lines 48-59: load the existing events
MainLoad ==
    /\ pc = "load"
    /\ steps' = steps \cup {"load"}
    /\ CASE input_file.kind = "catalog" ->
              /\ heap' = json_load(input_file)
              /\ existing_events' = [x \in 1..Len(json_load(input_file)) |-> x]
              /\ pc' = "launch"
              /\ exit_code' = exit_code
         [] input_file.kind = "missing" ->
              /\ heap' = <<>>
              /\ existing_events' = <<>>
              /\ pc' = "launch"
              /\ exit_code' = exit_code
         [] OTHER ->
              /\ heap' = heap
              /\ existing_events' = existing_events
              /\ pc' = "exit"
              /\ exit_code' = 1
    /\ UNCHANGED <<new_events, merged, i, new_count, updated_count, output_file,
                   browser, raised_at, enriched>>
    /\ UNCHANGED mainRest

\* lines 66-93: launch the browser, load the homepage, extract the events
MainExtract ==
    /\ pc = "launch"
    /\ steps' = steps \cup {"extract"}
    /\ \/ \* launch or new_page raises, outside the try
          /\ pc' = "raised"
          /\ UNCHANGED <<heap, new_events, i, exit_code, browser>>
       \/ \* page.goto raises: the handler of lines 127-132
          /\ pc' = "exit"
          /\ exit_code' = 1
          /\ browser' = "closed"
          /\ UNCHANGED <<heap, new_events, i>>
       \/ \E batch \in MainBatches :
            /\ heap' = heap \o batch
            /\ new_events' = [x \in 1..Len(batch) |-> Len(heap) + x]
            /\ i' = 1
            /\ IF batch = <<>>
               THEN pc' = "exit" /\ exit_code' = 1 /\ browser' = "closed"
               ELSE /\ pc' = IF args.skip_shotgun THEN AfterShotgun ELSE "shotgun"
                    /\ exit_code' = exit_code
                    /\ browser' = "open"
    /\ UNCHANGED <<existing_events, merged, new_count, updated_count, output_file,
                   raised_at, enriched>>
    /\ UNCHANGED mainRest

\* lines 101-104: one call of enrich_event_from_shotgun; an exception leaves
\* the loop for the handler of lines 127-132
MainShotgun ==
    /\ pc = "shotgun"
    /\ steps' = steps \cup {"shotgun"}
    /\ \E found \in ShotgunOutcomes :
         IF found.raises
         THEN /\ raised_at' = i
              /\ browser' = "closed"
              /\ exit_code' = 1
              /\ pc' = "exit"
              /\ UNCHANGED <<heap, i, enriched>>
         ELSE /\ heap' = [heap EXCEPT ![new_events[i]] =
                             enrich_event_from_shotgun(heap[new_events[i]], found)]
              /\ enriched' = enriched \cup {<<"shotgun", i>>}
              /\ i' = IF i = Len(new_events) THEN 1 ELSE i + 1
              /\ pc' = IF i = Len(new_events) THEN AfterShotgun ELSE pc
              /\ UNCHANGED <<raised_at, browser, exit_code>>
    /\ UNCHANGED <<existing_events, new_events, merged, new_count, updated_count,
                   output_file>>
    /\ UNCHANGED mainRest

\* lines 116-119: one call of enrich_event_from_queerparis
MainQueerparis ==
    /\ pc = "queerparis"
    /\ steps' = steps \cup {"queerparis"}
    /\ \E got \in QueerInfos :
         heap' = [heap EXCEPT ![new_events[i]] =
                     enrich_event_from_queerparis(heap[new_events[i]], got)]
    /\ enriched' = enriched \cup {<<"queerparis", i>>}
    /\ i' = IF i = Len(new_events) THEN 1 ELSE i + 1
    /\ pc' = IF i = Len(new_events) THEN "close" ELSE pc
    /\ UNCHANGED <<existing_events, new_events, merged, new_count, updated_count,
                   output_file, exit_code, browser, raised_at>>
    /\ UNCHANGED mainRest

\* faulty variant of MainMerge: the save step follows with --dry-run too
MainMergeSaving ==
    /\ pc = "close"
    /\ steps' = steps \cup {"merge"}
    /\ browser' = "closed"
    /\ heap' = merge_events(heap, existing_events, new_events).heap
    /\ merged' = merge_events(heap, existing_events, new_events).merged
    /\ new_count' = Len(merged') - Len(existing_events)
    /\ updated_count' = Len(new_events) - new_count'
    /\ pc' = "open"
    /\ UNCHANGED <<existing_events, new_events, i, output_file, exit_code,
                   raised_at, enriched>>
    /\ UNCHANGED mainRest

\* lines 125-146: close the browser, merge, count
MainMerge ==
    /\ pc = "close"
    /\ steps' = steps \cup {"merge"}
    /\ browser' = "closed"
    /\ heap' = merge_events(heap, existing_events, new_events).heap
    /\ merged' = merge_events(heap, existing_events, new_events).merged
    /\ new_count' = Len(merged') - Len(existing_events)
    /\ updated_count' = Len(new_events) - new_count'
    /\ pc' = IF args.dry_run THEN "return" ELSE "open"
    /\ UNCHANGED <<existing_events, new_events, i, output_file, exit_code,
                   raised_at, enriched>>
    /\ UNCHANGED mainRest

\* line 155: open(args.output, 'w') raises, or truncates the file
MainOpen ==
    /\ pc = "open"
    /\ steps' = steps \cup {"save"}
    /\ \E ok \in BOOLEAN :
         IF ok
         THEN output_file' = Truncated /\ pc' = "dump" /\ exit_code' = exit_code
         ELSE output_file' = output_file /\ pc' = "exit" /\ exit_code' = 1
    /\ UNCHANGED <<heap, existing_events, new_events, merged, i, new_count,
                   updated_count, browser, raised_at, enriched>>
    /\ UNCHANGED mainRest

\* line 156: json.dump completes, or raises after n dicts (lines 158-160)
MainDump ==
    /\ pc = "dump"
    /\ \/ /\ output_file' = json_dump([x \in 1..Len(merged) |-> heap[merged[x]]])
          /\ pc' = "return"
          /\ exit_code' = exit_code
       \/ \E n \in 0..(Len(merged) - 1) :
            /\ output_file' = PartialDump([x \in 1..Len(merged) |-> heap[merged[x]]], n)
            /\ pc' = "exit"
            /\ exit_code' = 1
    /\ UNCHANGED <<heap, existing_events, new_events, merged, i, new_count,
                   updated_count, browser, raised_at, enriched, steps>>
    /\ UNCHANGED mainRest

\* lines 161-172
MainReturn ==
    /\ pc = "return"
    /\ exit_code' = 0
    /\ pc' = "exit"
    /\ UNCHANGED <<heap, existing_events, new_events, merged, i, new_count,
                   updated_count, output_file, browser, raised_at, enriched, steps>>
    /\ UNCHANGED mainRest

NextMain ==
    \/ MainLoad \/ MainExtract \/ MainShotgun \/ MainQueerparis
    \/ MainMerge \/ MainOpen \/ MainDump \/ MainReturn

SpecMain == InitMain /\ [][NextMain]_vars

(***************************************************************************)
(* Claims about main (specification SpecMain)                              *)
(***************************************************************************)
\* C12: a failure while writing the output never damages the file that was
\* there: when the save step fails the file holds its previous content, and a
\* good catalog on disk is never replaced by an empty or partial one.
C12_SaveFailureKeepsOldFile ==
    /\ (pc = "exit" /\ exit_code = 1 /\ "save" \in steps) => output_file = output_file0
    /\ output_file0.kind = "catalog" => output_file.kind = "catalog"

\* C13: an enrichment call that fails for one event does not abort the batch:
\* when the run ends, every other event has been through the step, and the
\* merge (and, unless --dry-run, the save) has been reached.
C13_EnrichFailureKeepsBatch ==
    (pc = "exit" /\ raised_at # 0) =>
        /\ \A x \in 1..Len(new_events) : x = raised_at \/ <<"shotgun", x>> \in enriched
        /\ "merge" \in steps
        /\ (~args.dry_run => "save" \in steps)

\* C15: when the input file is missing, unreadable or not parseable, the run
\* goes on with an empty catalog instead of ending with an error.
C15_LoadFailureStartsEmpty ==
    (input_file.kind # "catalog" /\ "load" \in steps) =>
        /\ existing_events = <<>>
        /\ ~(pc = "exit" /\ steps = {"load"})

(***************************************************************************)
(* parse_date_from_section (eventsearch/orchestrate_event_extraction.py)   *)
(***************************************************************************)
\* a calendar date, as datetime holds it
Date(y, m, d) == [year |-> y, month |-> m, day |-> d]

IsLeap(y) == (y % 4 = 0 /\ y % 100 # 0) \/ y % 400 = 0

DaysInMonth(y, m) ==
    IF m = 2 THEN (IF IsLeap(y) THEN 29 ELSE 28)
    ELSE IF m \in {4, 6, 9, 11} THEN 30 ELSE 31

\* datetime(y, m, d) does not raise
IsDate(y, m, d) == m \in 1..12 /\ d >= 1 /\ d <= DaysInMonth(y, m)

\* faulty variant of AddDay: February always has 28 days
AddDayNoLeap(now) ==

    IF now.day < (IF now.month = 2 THEN 28 ELSE DaysInMonth(now.year, now.month))
    THEN Date(now.year, now.month, now.day + 1)
    ELSE IF now.month < 12
         THEN Date(now.year, now.month + 1, 1)
         ELSE Date(now.year + 1, 1, 1)

\* now + timedelta(days=1)
AddDay(now) ==
    IF now.day < DaysInMonth(now.year, now.month)
    THEN Date(now.year, now.month, now.day + 1)
    ELSE IF now.month < 12
         THEN Date(now.year, now.month + 1, 1)
         ELSE Date(now.year + 1, 1, 1)

Digits == <<"0", "1", "2", "3", "4", "5", "6", "7", "8", "9">>

IsDigit(c) == \E k \in 1..10 : Digits[k] = c

\* a number below 100, as two digits
TwoDigits(n) == <<Digits[(n \div 10) + 1], Digits[(n % 10) + 1]>>

\* strftime('%Y-%m-%d')
strftime(date) ==
    TwoDigits(date.year \div 100) \o TwoDigits(date.year % 100) \o <<"-">>
    \o TwoDigits(date.month) \o <<"-">> \o TwoDigits(date.day)

\* the keys of months_fr, in the order of their values
months_fr ==
    <<<<"j", "a", "n", "v", "i", "e", "r">>,
      <<"f", "e_acute", "v", "r", "i", "e", "r">>, <<"m", "a", "r", "s">>,
      <<"a", "v", "r", "i", "l">>, <<"m", "a", "i">>, <<"j", "u", "i", "n">>,
      <<"j", "u", "i", "l", "l", "e", "t">>, <<"a", "o", "u_circ", "t">>,
      <<"s", "e", "p", "t", "e", "m", "b", "r", "e">>,
      <<"o", "c", "t", "o", "b", "r", "e">>,
      <<"n", "o", "v", "e", "m", "b", "r", "e">>,
      <<"d", "e_acute", "c", "e", "m", "b", "r", "e">>>>

\* re.IGNORECASE: the character c of the text matches the lowercase letter p of
\* the pattern; the long s (U+017F, written "long_s") matches s although
\* str.lower() leaves it as it is
CaseMatches(c, p) == LowerChar(c) = p \/ (c = "long_s" /\ p = "s")

\* the last index of the longest run of characters satisfying the class that
\* starts at p (p - 1 when there is none)
DigitRunEnd(s, p) ==
    IF \A x \in p..Len(s) : IsDigit(s[x]) THEN Len(s)
    ELSE Min({x \in p..Len(s) : ~IsDigit(s[x])}) - 1

SpaceRunEnd(s, p) ==
    IF \A x \in p..Len(s) : s[x] \in SpaceChars THEN Len(s)
    ELSE Min({x \in p..Len(s) : s[x] \notin SpaceChars}) - 1

\* the month alternatives of the pattern that match the text at p
MonthsAt(s, p) ==
    {k \in 1..12 :
        /\ p + Len(months_fr[k]) - 1 <= Len(s)

        /\ \A x \in 1..Len(months_fr[k]) : CaseMatches(s[p + x - 1], months_fr[k][x])}

\* the start positions at which (\d+)\s+(janvier|...) matches; a match
\* that starts inside a run of digits ends where the match from the start of
\* the run ends, so the leftmost match starts at the start of a run
DayMonthStarts(s) ==
    {p \in 1..Len(s) :
        /\ IsDigit(s[p])
        /\ (p = 1 \/ ~IsDigit(s[p - 1]))
        /\ SpaceRunEnd(s, DigitRunEnd(s, p) + 1) > DigitRunEnd(s, p)
        /\ MonthsAt(s, SpaceRunEnd(s, DigitRunEnd(s, p) + 1) + 1) # {}}

\* re.search: group 1 and group 2 of the leftmost match
DayMonthSearch(s) ==
    LET p == Min(DayMonthStarts(s))
        e == DigitRunEnd(s, p)
        w == SpaceRunEnd(s, e + 1)
        k == Min(MonthsAt(s, w + 1))

    IN [day |-> SubSeq(s, p, e), month_name |-> SubSeq(s, w + 1, w + Len(months_fr[k]))]

\* sys.int_info.default_max_str_digits: int() of a longer digit string raises
\* ValueError
IntMaxStrDigits == 4300

ValueError == <<"ValueError">>

\* int(text) for a string of digits; a value above 99 is held as 100, which
\* every later test (a day of a month) treats like the value itself
RECURSIVE int(_)
int(text) ==
    IF Len(text) = 0 THEN 0
    ELSE IF Len(text) > 2 /\ text[1] = "0" THEN int(Tail(text))
    ELSE IF Len(text) > 2 THEN 100
    ELSE LET v == CHOOSE k \in 0..9 : Digits[k + 1] = text[Len(text)]
         IN IF Len(text) = 1 THEN v
            ELSE 10 * (CHOOSE k \in 0..9 : Digits[k + 1] = text[1]) + v

\* months_fr.get(month_name.lower(), today.month)
MonthOf(month_name, now) ==
    IF \E k \in 1..12 : months_fr[k] = Lower(month_name)
    THEN CHOOSE k \in 1..12 : months_fr[k] = Lower(month_name)
    ELSE now.month

\* faulty variant of HasPassed: only the month is compared
HasPassedMonthOnly(month, day, now) == month < now.month

\* the test of line 83: the month and day are before today
HasPassed(month, day, now) ==
    month < now.month \/ (month = now.month /\ day < now.day)

HasToday(s) ==
    \/ IsSubstring(<<"a", "u", "j", "o", "u", "r", "d", "'", "h", "u", "i">>,
                   Lower(s))
    \/ IsSubstring(<<"t", "o", "d", "a", "y">>, Lower(s))

HasTomorrow(s) ==
    \/ IsSubstring(<<"d", "e", "m", "a", "i", "n">>, Lower(s))
    \/ IsSubstring(<<"t", "o", "m", "o", "r", "r", "o", "w">>, Lower(s))

\* the value the call returns, or the exception it raises, when datetime.now()
\* gives now
parse_date_from_section(s, now) ==
    IF ~Truthy(s) THEN None
    ELSE IF HasToday(s) THEN strftime(now)
    ELSE IF HasTomorrow(s) THEN strftime(AddDay(now))
    ELSE IF DayMonthStarts(s) = {} THEN None
    ELSE IF Len(DayMonthSearch(s).day) > IntMaxStrDigits THEN ValueError
    ELSE LET day == int(DayMonthSearch(s).day)
             month == MonthOf(DayMonthSearch(s).month_name, now)

             year == IF HasPassed(month, day, now) THEN now.year + 1 ELSE now.year
         IN IF IsDate(year, month, day) THEN strftime(Date(year, month, day))
            ELSE None

\* a header: prefix, day, separator, month name, suffix
Header(prefix, day, sep, month) == prefix \o day \o sep \o month

DayTexts ==
    {<<"0">>, <<"1">>, <<"5">>, <<"0", "5">>, <<"1", "8">>, <<"1", "9">>,
     <<"2", "0">>, <<"2", "1">>, <<"2", "8">>, <<"2", "9">>, <<"3", "0">>,
     <<"3", "1">>, <<"3", "2">>, <<"1", "0", "0">>}

MonthTexts ==
    {months_fr[k] : k \in 1..12}
    \cup {<<"M", "A", "R", "S">>, <<"m", "a", "r", "long_s">>,
          <<"F", "E_acute", "V", "R", "I", "E", "R">>,
          <<"f", "e", "v", "r", "i", "e", "r">>}

DatedHeaders ==
    {Header(p, d, s, m) :
        p \in {<<>>, <<"v", "e", "n", ".", " ">>, <<"x">>},
        d \in DayTexts,
        s \in {<<" ">>, <<>>, <<" ", "\t">>},
        m \in MonthTexts}

\* a day of more digits than int() converts
LongDayHeader ==
    [k \in 1..(IntMaxStrDigits + 1) |-> "1"] \o <<" ">> \o months_fr[5]

OtherHeaders ==
    {None, EmptyStr, <<"d", "e", "m", "a", "i", "n">>,
     <<"D", "e", "m", "a", "i", "n">>,
     <<"A", "u", "j", "o", "u", "r", "d", "'", "h", "u", "i">>,
     <<"A", "u", "j", "o", "u", "r", "d", "curly_quote", "h", "u", "i">>,
     <<"t", "o", "d", "a", "y">>,
     <<"t", "o", "m", "o", "r", "r", "o", "w">>, <<"H", "i", "e", "r">>,
     <<"l", "e", "n", "d", "e", "m", "a", "i", "n">>,
     <<"t", "o", "d", "a", "y", " ", "t", "o", "m", "o", "r", "r", "o", "w">>,
     <<"d", "e", "m", "a", "i", "n", " ", "5", " ", "j", "a", "n", "v", "i", "e", "r">>,
     <<"2", "1">>, <<"n", "o", "v", "e", "m", "b", "r", "e", " ", "2", "1">>,
     LongDayHeader}

Headers == DatedHeaders \cup OtherHeaders

\* the dates datetime.now() gives
Todays ==
    {Date(2025, 11, 19), Date(2024, 2, 28), Date(2024, 2, 29), Date(2023, 2, 28),
     Date(2023, 12, 31), Date(2024, 12, 31), Date(2025, 1, 1), Date(2024, 3, 1),
     Date(2023, 3, 1), Date(2025, 4, 30), Date(2025, 1, 31)}

InitDate ==
    /\ date_section \in Headers
    /\ today \in Todays
    /\ dpc = "call"
    /\ date_result = <<>>
    /\ MergeIdle /\ MatchIdle /\ DescIdle /\ MainIdle /\ HomeIdle /\ FormatIdle
    /\ MoreIdle

\* parse_date_from_section(date_section) runs and returns or raises
ParseDate ==
    /\ dpc = "call"
    /\ date_result' = parse_date_from_section(date_section, today)
    /\ dpc' = IF date_result' = ValueError THEN "raised" ELSE "return"
    /\ UNCHANGED <<date_section, today>>

    /\ UNCHANGED <<mergeVars, matchVars, descVars, mainVars, homeVars, formatVars,
                   moreVars>>

NextDate == ParseDate

SpecDate == InitDate /\ [][NextDate]_vars

(***************************************************************************)
(* Claims about parse_date_from_section (specification SpecDate)           *)
(***************************************************************************)
\* the header "<day> <month-name>", after an optional weekday
DayMonthHeader(weekday, day, month) ==
    weekday \o (IF day < 10 THEN <<Digits[day + 1]>> ELSE TwoDigits(day))
            \o <<" ">> \o months_fr[month]

Weekdays == {<<>>, <<"v", "e", "n", ".", " ">>}

\* the year the claims give to a day and month: this year when the day is
\* today or later, next year when it is earlier
TargetYear(day, month) ==
    IF month > today.month \/ (month = today.month /\ day >= today.day)
    THEN today.year
    ELSE today.year + 1

\* the ISO text a is an earlier date than the ISO text b
IsoBefore(a, b) ==
    \E k \in 1..10 :
        /\ SubSeq(a, 1, k - 1) = SubSeq(b, 1, k - 1)
        /\ a[k] # b[k]
        /\ \E x, y \in 1..10 : Digits[x] = a[k] /\ Digits[y] = b[k] /\ x < y

NoKeyword == ~HasToday(date_section) /\ ~HasTomorrow(date_section)

\* C16: for a "<day> <month-name>" header the result has the year of today
\* when the month and day are today or later and the next year when they are
\* earlier, so that no returned date is before today; "5 janvier" on 2025-11-19
\* gives 2026-01-05 and "ven. 21 novembre" gives 2025-11-21.
C16_YearRollover ==
    dpc = "return" =>
        /\ \A w \in Weekdays : \A day \in 1..31 : \A month \in 1..12 :
             (/\ date_section = DayMonthHeader(w, day, month)
              /\ IsDate(TargetYear(day, month), month, day))
             => date_result = strftime(Date(TargetYear(day, month), month, day))
        /\ (Truthy(date_section) /\ NoKeyword /\ date_result # None)
             => ~IsoBefore(date_result, strftime(today))
        /\ (today = Date(2025, 11, 19) /\ date_section =
            <<"5", " ", "j", "a", "n", "v", "i", "e", "r">>)
             => date_result =
                 <<"2", "0", "2", "6", "-", "0", "1", "-", "0", "5">>
        /\ (today = Date(2025, 11, 19) /\ date_section =
            <<"v", "e", "n", ".", " ", "2", "1", " ", "n", "o", "v", "e", "m", "b", "r", "e">>)
             => date_result =
                 <<"2", "0", "2", "5", "-", "1", "1", "-", "2", "1">>

\* "18 novembre" read on 2025-11-19: the month is the current one, the day has
\* passed, and the date is given the next year
C16_Witness ==
    /\ dpc = "return"
    /\ today = Date(2025, 11, 19)
    /\ date_section = <<"1", "8", " ", "n", "o", "v", "e", "m", "b", "r", "e">>
    /\ date_result = <<"2", "0", "2", "6", "-", "1", "1", "-", "1", "8">>

\* the number of the day, counted from 0001-01-01
Ordinal(date) ==
    365 * (date.year - 1) + ((date.year - 1) \div 4) - ((date.year - 1) \div 100)
    + ((date.year - 1) \div 400)
    + <<0, 31, 59, 90, 120, 151, 181, 212, 243, 273, 304, 334>>[date.month]
    + (IF date.month > 2 /\ IsLeap(date.year) THEN 1 ELSE 0)
    + date.day

\* C17: a header that holds aujourd'hui or today gives the date of today; a
\* header that holds demain or tomorrow (and no word for today) gives the next
\* calendar day, across the ends of months and years; "demain" on 2025-11-19
\* gives 2025-11-20.
C17_TodayAndTomorrow ==
    (dpc = "return" /\ Truthy(date_section)) =>
        /\ HasToday(date_section) => date_result = strftime(today)
        /\ (HasTomorrow(date_section) /\ ~HasToday(date_section)) =>
             \E y \in {today.year, today.year + 1} : \E m \in 1..12 : \E d \in 1..31 :
                 /\ IsDate(y, m, d)
                 /\ Ordinal(Date(y, m, d)) = Ordinal(today) + 1
                 /\ date_result = strftime(Date(y, m, d))
        /\ (today = Date(2025, 11, 19) /\ date_section =
            <<"d", "e", "m", "a", "i", "n">>)
             => date_result =
                 <<"2", "0", "2", "5", "-", "1", "1", "-", "2", "0">>

\* "Demain" read on the last day of a leap February and of a year
C17_Witness ==
    /\ dpc = "return"
    /\ date_section = <<"D", "e", "m", "a", "i", "n">>
    /\ \/ today = Date(2024, 2, 28) /\ date_result =
        <<"2", "0", "2", "4", "-", "0", "2", "-", "2", "9">>
       \/ today = Date(2023, 12, 31) /\ date_result =
           <<"2", "0", "2", "4", "-", "0", "1", "-", "0", "1">>

\* C18: the call returns None and never raises for a header whose day and
\* month are not a calendar date (day 0, day 31 of a 30-day month, 30 fevrier,
\* 29 fevrier when the year given is not a leap year) and for a header that
\* holds neither a relative keyword nor a day followed by a month name.
C18_BadHeaderGivesNone ==
    (dpc # "call" /\ Truthy(date_section) /\ NoKeyword) =>
        /\ date_result # ValueError
        /\ DayMonthStarts(date_section) = {} => date_result = None
        /\ \A w \in Weekdays : \A day \in 0..32 : \A month \in 1..12 :
             (/\ date_section = DayMonthHeader(w, day, month)
              /\ ~IsDate(TargetYear(day, month), month, day))
             => date_result = None
        /\ (/\ DayMonthStarts(date_section) # {}
            /\ Len(DayMonthSearch(date_section).day) > 2
            /\ DayMonthSearch(date_section).day[1] # "0")
             => date_result = None

(***************************************************************************)
(* extract_events_from_queerparis_homepage: the loop over the lines of the *)
(* page text (eventsearch/orchestrate_event_extraction.py lines 139-212)   *)
(***************************************************************************)
\* number of blocks (a header, an event, a stray line) of a page
MaxBlocks == 4

\* the first index from which word occurs in s at or after p, 0 if none
FirstIndex(word, s, p) ==
    LET at == {k \in p..(Len(s) - Len(word) + 1) : SubSeq(s, k, k + Len(word) - 1) = word}
    IN IF at = {} THEN 0 ELSE Min(at)

\* re.match of one of date_patterns, with re.IGNORECASE
IsDateHeader(line) ==
    \/ Lower(line) \in {<<"a", "u", "j", "o", "u", "r", "d", "'", "h", "u", "i">>, <<"d", "e", "m", "a", "i", "n">>, <<"h", "i", "e", "r">>}
    \/ /\ Len(line) >= 3
       /\ Lower(SubSeq(line, 1, 3)) \in
            {<<"l", "u", "n">>, <<"m", "a", "r">>, <<"m", "e", "r">>,
             <<"j", "e", "u">>, <<"v", "e", "n">>, <<"s", "a", "m">>,
             <<"d", "i", "m">>}
       /\ LET p == IF Len(line) >= 4 /\ line[4] = "." THEN 5 ELSE 4
              s1 == SpaceRunEnd(line, p)
              d == DigitRunEnd(line, s1 + 1)
              s2 == SpaceRunEnd(line, d + 1)
          IN s1 >= p /\ d > s1 /\ s2 > d /\ MonthsAt(line, s2 + 1) # {}

\* the skip_keywords of line 158
skip_keywords ==
    <<<<"q", "u", "e", "e", "r", " ", "p", "a", "r", "i", "s">>,
      <<"e_acute", "v", "e_acute", "n", "e", "m", "e", "n", "t", " ", "s", "p", "o", "n", "s", "o", "r", "i", "s", "e_acute">>,
      <<"p", "u", "b", "l", "i", "c", "i", "t", "e_acute">>,
      <<"a", "j", "o", "u", "t", "e", "z", " ", "v", "o", "s", " ", "e_acute", "v", "e_acute", "n", "e", "m", "e", "n", "t", "s">>,
      <<"s", "p", "o", "n", "s", "o", "r", "i", "s", "e", "r">>,
      <<"p", "u", "b", "l", "i", "c", "i", "t", "e_acute", " ", "s", "u", "r">>,
      <<"c", "g", "u">>,
      <<"m", "e", "n", "t", "i", "o", "n", "s", " ", "l", "e_acute", "g", "a", "l", "e", "s">>,
      <<"c", "o", "n", "t", "a", "c", "t">>>>

\* any(keyword in line.lower() for keyword in skip_keywords)
IsSkipLine(line) ==
    \E k \in 1..Len(skip_keywords) : IsSubstring(skip_keywords[k], Lower(line))

\* the start positions at which \d{1,2}:\d{2} matches, with two digits before
\* the colon and with one
TimeStarts(s, n) ==
    {p \in 1..(Len(s) - n - 2) :
        /\ \A x \in 0..(n - 1) : IsDigit(s[p + x])
        /\ s[p + n] = ":"
        /\ IsDigit(s[p + n + 1]) /\ IsDigit(s[p + n + 2])}

\* re.search(r'(\d{1,2}:\d{2})', s): group 1 of the leftmost match (at one
\* position two digits are tried first), None when nothing matches
TimeSearch(s) ==
    IF TimeStarts(s, 1) \cup TimeStarts(s, 2) = {} THEN None
    ELSE LET p == Min(TimeStarts(s, 1) \cup TimeStarts(s, 2))
         IN IF p \in TimeStarts(s, 2) THEN SubSeq(s, p, p + 4) ELSE SubSeq(s, p, p + 3)

\* re.sub(r'\d+.*?Paris.*?France', '', s): from the leftmost digit that has a
\* "Paris" and then a "France" behind it, up to the first such "France"
RECURSIVE SubAddress(_)
SubAddress(s) ==
    LET starts == {p \in 1..Len(s) :
                      /\ IsDigit(s[p])
                      /\ FirstIndex(<<"P", "a", "r", "i", "s">>, s, p + 1) # 0
                      /\ FirstIndex(<<"F", "r", "a", "n", "c", "e">>, s, FirstIndex(<<"P", "a", "r", "i", "s">>, s, p + 1) + 5) # 0}
        p == Min(starts)
        e == FirstIndex(<<"F", "r", "a", "n", "c", "e">>, s, FirstIndex(<<"P", "a", "r", "i", "s">>, s, DigitRunEnd(s, p) + 1) + 5) + 5
    IN IF starts = {} THEN s
       ELSE SubSeq(s, 1, p - 1) \o SubAddress(SubSeq(s, e + 1, Len(s)))

\* lines 176-183: the venue of an event, from the line after its time
VenueOf(next_next_line) ==
    IF ~IsSubstring(<<"p", "a", "r", "i", "s">>, Lower(next_next_line)) THEN None
    ELSE IF Len(Strip(SubAddress(next_next_line))) < 3 THEN None
    ELSE Strip(SubAddress(next_next_line))

\* lines 186-192: the URL of the link whose text is the name, else of the
\* first link whose text holds the name or is held by it; urls is the dict
\* built from the links of the page, as the list of its items
EventUrl(event_name, urls) ==
    LET exact == {k \in 1..Len(urls) : urls[k].text = event_name}
        fuzzy == {k \in 1..Len(urls) :
                     \/ IsSubstring(Lower(event_name), Lower(urls[k].text))
                     \/ IsSubstring(Lower(urls[k].text), Lower(event_name))}
    IN IF exact # {} THEN urls[Min(exact)].url
       ELSE IF fuzzy # {} THEN urls[Min(fuzzy)].url
       ELSE None

\* lines 197-204
HomeEvent(name, time, venue, date, url) ==
    [name |-> name, time |-> time, venueName |-> venue, date |-> date,
     queerParisUrl |-> url, source |-> <<"queer.paris">>]

\* the blocks of lines a page of the model is made of: two headers, an event
\* with time and venue, an event with no venue line, a line of the site, and
\* an entry with a name of three characters
PageBlocks ==
    {<<<<"D", "e", "m", "a", "i", "n">>>>,
     <<<<"v", "e", "n", ".", " ", "2", "1", " ", "n", "o", "v", "e", "m", "b", "r", "e">>>>,
     <<<<"A", "l", "p", "h", "a">>,
       <<"2", "3", ":", "0", "0">>,
       <<"L", "e", " ", "B", "a", "r", ",", " ", "5", " ", "r", "u", "e", " ", "X", ",", " ", "P", "a", "r", "i", "s", ",", " ", "F", "r", "a", "n", "c", "e">>>>,
     <<<<"B", "e", "t", "a", " ", "N", "i", "g", "h", "t">>,
       <<"d", "e", " ", "2", "2", ":", "3", "0", " ", "a", " ", "5", ":", "0", "0">>>>,
     <<<<"C", "o", "n", "t", "a", "c", "t">>>>,
     <<<<"B", "B", "B">>, <<"2", "1", ":", "0", "0">>, <<"P", "a", "r", "i", "s">>>>}

RECURSIVE Flatten(_)
Flatten(blocks) ==
    IF blocks = <<>> THEN <<>> ELSE Head(blocks) \o Flatten(Tail(blocks))

Pages == {Flatten(b) : b \in UNION {[1..n -> PageBlocks] : n \in 0..MaxBlocks}}

\* the links of the page: none, or two whose texts hold or are the names
LinkMaps ==
    {<<>>,
     <<[text |-> <<"A", "l", "p", "h", "a", " ", "P", "a", "r", "t", "y">>,
        url |-> <<"https://queer.paris", "/alpha-party">>],
       [text |-> <<"A", "l", "p", "h", "a">>,
        url |-> <<"https://queer.paris", "/alpha">>]>>}

InitHome ==
    /\ lines \in Pages
    /\ hi = 0
    /\ current_date_section = None
    /\ extracted = <<>>
    /\ event_urls \in LinkMaps
    /\ hpc = "loop"
    /\ today = Date(2025, 11, 19)
    /\ date_section = <<>>
    /\ dpc = "idle"
    /\ date_result = <<>>
    /\ MergeIdle /\ MatchIdle /\ DescIdle /\ MainIdle /\ FormatIdle /\ MoreIdle

homeRest == <<mergeVars, matchVars, descVars, mainVars, dateVars, formatVars,
             moreVars>>

\* one pass of the while loop of lines 143-210; an exception of
\* parse_date_from_section ends the function in the handler of lines 214-218
HomeIter ==
    /\ hpc = "loop"
    /\ hi < Len(lines)
    /\ LET line == lines[hi + 1]
           section == IF IsDateHeader(line) THEN line ELSE current_date_section
           event_date == parse_date_from_section(section, today)
       IN /\ current_date_section' = section
          /\ IF IsSkipLine(line)
             THEN hi' = hi + 1 /\ UNCHANGED <<extracted, hpc>>
             ELSE IF /\ Truthy(section)
                     /\ hi + 2 < Len(lines)
                     /\ TimeSearch(lines[hi + 2]) # None
                     /\ Len(line) > 3
                  THEN IF event_date = ValueError
                       THEN /\ extracted' = <<>>
                            /\ hpc' = "return"
                            /\ hi' = hi
                       ELSE /\ extracted' = Append(extracted,
                                [event |-> HomeEvent(line, TimeSearch(lines[hi + 2]),
                                                     VenueOf(lines[hi + 3]), event_date,
                                                     EventUrl(line, event_urls)),
                                 at |-> hi + 1])
                            /\ hi' = hi + 3
                            /\ hpc' = hpc
                  ELSE hi' = hi + 1 /\ UNCHANGED <<extracted, hpc>>
    /\ UNCHANGED <<lines, event_urls>>
    /\ UNCHANGED homeRest

\* line 212: return events
HomeReturn ==
    /\ hpc = "loop"
    /\ hi >= Len(lines)
    /\ hpc' = "return"
    /\ UNCHANGED <<lines, hi, current_date_section, extracted, event_urls>>
    /\ UNCHANGED homeRest

NextHome == HomeIter \/ HomeReturn

SpecHome == InitHome /\ [][NextHome]_vars

(***************************************************************************)
(* Claims about the homepage extraction (specification SpecHome)           *)
(***************************************************************************)
\* the header lines of the page at or before line a (counted from 1)
HeadersUpTo(a) == {h \in 1..a : IsDateHeader(lines[h])}

\* C19: every extracted event is dated by the last header line before it: a
\* header holds for all events that follow it until the next header line, and
\* no event comes from a line before the first header.
C19_DatedByLastHeader ==
    \A x \in 1..Len(extracted) :
        /\ HeadersUpTo(extracted[x].at) # {}
        /\ extracted[x].event["date"] =
             parse_date_from_section(lines[Highest(HeadersUpTo(extracted[x].at))], today)

(***************************************************************************)
(* parse_and_format_description (eventsearch/enrich_descriptions.py lines  *)
(* 329-418).  The two emoji of the labels are written "headphones" and     *)
(* "necktie".                                                              *)
(***************************************************************************)
\* the limits of lines 380-381 and 411-412, and of the filters of 375, 407
MainLimit == 300
MainCut == 297
DressLimit == 200
DressCut == 197
MinSentence == 10
\* the limits of line 397
LineupMin == 20
LineupMax == 500

Ellipsis == <<".", ".", ".">>

\* the faulty variant of Truncate that cuts at the limit itself
TruncateAtLimit(text, limit, cut) ==
    IF Len(text) > limit THEN SubSeq(text, 1, limit) \o Ellipsis ELSE text

\* if len(text) > limit: text = text[:cut] + "..."
Truncate(text, limit, cut) ==
    IF Len(text) > limit THEN SubSeq(text, 1, cut) \o Ellipsis ELSE text

\* the keyword alternatives of the two patterns, in the order in which the
\* pattern tries them, an optional character first with it and then without;
\* "ANY" is the dot
LineupForms ==
    <<<<"m", "a", "i", "n", "s", "t", "a", "g", "e">>,
      <<"p", "l", "a", "y", "s", "t", "a", "g", "e">>,
      <<"l", "i", "n", "e", "ANY", "u", "p">>, <<"l", "i", "n", "e", "u", "p">>,
      <<"l", "i", "n", "e", "-", "u", "p">>,
      <<"a", "r", "t", "i", "s", "t", "s">>, <<"a", "r", "t", "i", "s", "t">>,
      <<"d", "j", "s">>, <<"d", "j">>>>

DressForms ==
    <<<<"d", "r", "e", "s", "s", "ANY", "c", "o", "d", "e">>,
      <<"d", "r", "e", "s", "s", "c", "o", "d", "e">>,
      <<"t", "e", "n", "u", "e">>,
      <<"c", "o", "d", "e", " ", "v", "e", "s", "t", "i", "m", "e", "n", "t",
        "a", "i", "r", "e">>>>

\* the alternatives of the lookahead that ends group 2 (the text has no
\* newline left, and $ is the end of the text)
LineupStops ==
    {<<"d", "r", "e", "s", "s">>, <<"c", "o", "d", "e">>,
     <<"v", "e", "s", "t", "i", "a", "i", "r", "e">>, <<"i", "n", "f", "o">>,
     <<"p", "r", "a", "t", "i", "q", "u", "e">>,
     <<"c", "o", "n", "s", "e", "n", "t", "e", "m", "e", "n", "t">>}

DressStops ==
    {<<"v", "e", "s", "t", "i", "a", "i", "r", "e">>, <<"i", "n", "f", "o">>,
     <<"p", "r", "a", "t", "i", "q", "u", "e">>,
     <<"c", "o", "n", "s", "e", "n", "t", "e", "m", "e", "n", "t">>}

\* the form matches the text at p, with re.IGNORECASE and re.DOTALL
FormAt(s, p, f) ==
    /\ p + Len(f) - 1 <= Len(s)
    /\ \A k \in 1..Len(f) : f[k] = "ANY" \/ CaseMatches(s[p + k - 1], f[k])

\* [:\s]
SepChars == SpaceChars \cup {":"}

SepRunEnd(s, p) ==
    IF \A x \in p..Len(s) : s[x] \in SepChars THEN Len(s)
    ELSE Min({x \in p..Len(s) : s[x] \notin SepChars}) - 1

\* the alternatives that match at p and are followed by [:\s]
FormsAt(s, p, forms) ==
    {k \in 1..Len(forms) :
        /\ FormAt(s, p, forms[k])
        /\ p + Len(forms[k]) <= Len(s)
        /\ s[p + Len(forms[k])] \in SepChars}

\* re.search(r'(keyword)[:\s]+(.*?)(?=stop|$)', s, re.IGNORECASE | re.DOTALL):
\* the leftmost match; group 2 runs from the end of the separators to the
\* first stop word
SectionSearch(s, forms, stops) ==
    LET starts == {p \in 1..Len(s) : FormsAt(s, p, forms) # {}}
    IN IF starts = {} THEN [found |-> FALSE, start |-> 0, group2 |-> <<>>]
       ELSE LET p == Min(starts)
                f == forms[Min(FormsAt(s, p, forms))]
                e == SepRunEnd(s, p + Len(f))
                ends == {x \in (e + 1)..Len(s) : \E w \in stops : FormAt(s, x, w)}
                x == IF ends = {} THEN Len(s) + 1 ELSE Min(ends)
            IN [found |-> TRUE, start |-> p, group2 |-> SubSeq(s, e + 1, x - 1)]

SentenceEnds == {".", "!", "?"}

\* re.split(r'[.!?]+', s): a piece starts at the start of the text and after
\* every run of sentence ends, and runs up to the next sentence end
Split(s) ==
    LET starts == SelectSeq([a \in 1..(Len(s) + 1) |-> a],
                            LAMBDA a : \/ a = 1
                                       \/ /\ s[a - 1] \in SentenceEnds
                                          /\ (a > Len(s) \/ s[a] \notin SentenceEnds))
        PieceEnd(a) ==
            IF \A x \in a..Len(s) : s[x] \notin SentenceEnds THEN Len(s)
            ELSE Min({x \in a..Len(s) : s[x] \in SentenceEnds}) - 1
    IN [j \in 1..Len(starts) |-> SubSeq(s, starts[j], PieceEnd(starts[j]))]

\* [s.strip() for s in sentences if s.strip() and len(s) > 10]
RECURSIVE KeepSentences(_)
KeepSentences(ss) ==
    IF ss = <<>> THEN <<>>
    ELSE IF Strip(Head(ss)) # <<>> /\ Len(Head(ss)) > MinSentence
         THEN <<Strip(Head(ss))>> \o KeepSentences(Tail(ss))
         ELSE KeepSentences(Tail(ss))

\* '. '.join(ss)
RECURSIVE JoinSentences(_)
JoinSentences(ss) ==
    IF ss = <<>> THEN <<>>
    ELSE IF Len(ss) = 1 THEN ss[1]
    ELSE ss[1] \o <<".", " ">> \o JoinSentences(Tail(ss))

\* the first n sentences kept of a text, joined
Summary(text, n) ==
    LET ss == KeepSentences(Split(text))
    IN JoinSentences(SubSeq(ss, 1, IF Len(ss) < n THEN Len(ss) ELSE n))

NonSpaceRunEnd(s, p) ==
    IF \A x \in p..Len(s) : s[x] \notin SpaceChars THEN Len(s)
    ELSE Min({x \in p..Len(s) : s[x] \in SpaceChars}) - 1

\* re.sub(r'https?://[^\s]+', '', s)
RECURSIVE RemoveUrls(_)
RemoveUrls(s) ==
    LET heads == {<<"h", "t", "t", "p", "s", ":", "/", "/">>, <<"h", "t", "t", "p", ":", "/", "/">>}
        starts == {p \in 1..Len(s) : \E h \in heads :
                       /\ p + Len(h) <= Len(s)
                       /\ SubSeq(s, p, p + Len(h) - 1) = h
                       /\ s[p + Len(h)] \notin SpaceChars}
        p == Min(starts)
    IN IF starts = {} THEN s
       ELSE SubSeq(s, 1, p - 1)
            \o RemoveUrls(SubSeq(s, NonSpaceRunEnd(s, p) + 1, Len(s)))

\* [\w.]
HandleChars == WordChars \cup {"_", "."}

HandleRunEnd(s, p) ==
    IF \A x \in p..Len(s) : s[x] \in HandleChars THEN Len(s)
    ELSE Min({x \in p..Len(s) : s[x] \notin HandleChars}) - 1

\* re.sub(r'@[\w.]+', '', s)
RECURSIVE RemoveHandles(_)
RemoveHandles(s) ==
    LET starts == {p \in 1..(Len(s) - 1) : s[p] = "@" /\ s[p + 1] \in HandleChars}
        p == Min(starts)
    IN IF starts = {} THEN s
       ELSE SubSeq(s, 1, p - 1)
            \o RemoveHandles(SubSeq(s, HandleRunEnd(s, p + 1) + 1, Len(s)))

\* lines 388-395
LineupText(group2) ==
    Strip(CollapseSpaces(RemoveHandles(RemoveUrls(CollapseSpaces(Strip(group2))))))

LineupLabel ==
    <<"\n", "\n", "headphones", " ", "L", "i", "n", "e", "u", "p", ":", "\n">>

DressLabel ==
    <<"\n", "\n", "necktie", " ", "D", "r", "e", "s", "s", " ", "C", "o", "d",
      "e", ":", " ">>

\* the faulty variant of DescriptionEn that has no text when the translator
\* raises
DescriptionEnNoFallback(raw, tr) == Strip(CollapseSpaces(tr.text))

\* lines 335-344: the text the sections are searched in
DescriptionEn(raw, tr) ==
    Strip(CollapseSpaces(IF tr.raises THEN raw ELSE tr.text))

\* lines 349-370: the text before the first section
MainDesc(en) ==
    LET lineup == SectionSearch(en, LineupForms, LineupStops)
        dress == SectionSearch(en, DressForms, DressStops)
        positions == {m.start : m \in {x \in {lineup, dress} : x.found}}
    IN IF positions = {} THEN en ELSE Strip(SubSeq(en, 1, Min(positions) - 1))

\* lines 373-384: main_text, None when no part is appended
MainText(en) ==
    IF Summary(MainDesc(en), 3) = <<>> THEN None
    ELSE Truncate(Summary(MainDesc(en), 3), MainLimit, MainCut)

\* lines 387-398: the lineup part, empty when none is appended
LineupPart(en) ==
    LET m == SectionSearch(en, LineupForms, LineupStops)
        t == LineupText(m.group2)
    IN IF m.found /\ Len(t) > LineupMin /\ Len(t) < LineupMax
       THEN LineupLabel \o t ELSE <<>>

\* lines 401-415: dress_text, None when no part is appended
DressText(en) ==
    LET m == SectionSearch(en, DressForms, DressStops)
        t == Summary(CollapseSpaces(Strip(m.group2)), 2)
    IN IF m.found /\ t # <<>> THEN Truncate(t, DressLimit, DressCut) ELSE None

\* lines 417-418
FormatResult(en) ==
    LET parts == (IF MainText(en) = None THEN <<>> ELSE MainText(en))
                 \o LineupPart(en)
                 \o (IF DressText(en) = None THEN <<>> ELSE DressLabel \o DressText(en))
    IN IF Strip(parts) = <<>> THEN None ELSE Strip(parts)

\* n copies of a character
Rep(c, n) == [k \in 1..n |-> c]

\* the lengths of the sentences of the descriptions of the model
SentenceLengths == {11, 150, 297, 300, 301, 400}

\* the main texts: none, a sentence too short to be kept, one sentence of
\* each length, and three sentences of 150 characters
MainTexts ==
    {<<>>, <<"S", "h", "o", "r", "t", ".", " ">>}
    \cup {Rep("a", n) \o <<".", " ">> : n \in SentenceLengths}
    \cup {Rep("a", 150) \o <<".", " ">> \o Rep("c", 150) \o <<"!", " ">>
             \o Rep("d", 150) \o <<"?", " ">>}

\* a lineup section with a handle and a URL
LineupTexts ==
    {<<>>,
     <<"L", "i", "n", "e", "-", "u", "p", ":", " ", "D", "J", " ", "A", "a",
       "a", " ", "@", "a", "a", "a", ".", "b", " ", "h", "t", "t", "p", "s",
       ":", "/", "/", "x", ".", "y", "/", "z", " ", "a", "n", "d", " ", "B",
       "b", "b", "b", "b", "b", "b", "b", "b", "b", "b", "b", "b", "b", "b",
       "b", "b", "b", "b", "b", " ">>}

\* the dress code sections: none, one sentence of each length, and two
\* sentences of 150 characters
DressTexts ==
    {<<>>}
    \cup {<<"D", "r", "e", "s", "s", " ", "c", "o", "d", "e", ":", " ">> \o Rep("b", n) \o <<".">> : n \in {11, 197, 200, 201, 400}}
    \cup {<<"T", "e", "n", "u", "e", " ", ":", " ">> \o Rep("b", 150) \o <<".", " ">> \o Rep("e", 150)}

RawDescriptions ==
    {None} \cup {m \o l \o d : m \in MainTexts, l \in LineupTexts, d \in DressTexts}

\* what translator.translate does: it raises, it returns the text as it is,
\* or it returns another text
Translations(raw) ==
    {[raises |-> TRUE, text |-> <<>>]}
    \cup {[raises |-> FALSE, text |-> t] :
             t \in {raw,
                    Rep("t", 400) \o <<"D", "r", "e", "s", "s", " ", "c", "o", "d", "e", ":", " ">> \o Rep("u", 250)}}

InitFormat ==
    /\ raw_description \in RawDescriptions
    /\ translation \in Translations(raw_description)
    /\ fpc = "call"
    /\ main_text = None
    /\ dress_text = None
    /\ format_result = None
    /\ MergeIdle /\ MatchIdle /\ DescIdle /\ MainIdle /\ DateIdle /\ HomeIdle
    /\ MoreIdle

\* the call: None for no description (lines 331-332), else the parts
FormatCall ==
    /\ fpc = "call"
    /\ fpc' = "return"
    /\ IF ~Truthy(raw_description)
       THEN UNCHANGED <<main_text, dress_text, format_result>>
       ELSE LET en == DescriptionEn(raw_description, translation)
            IN /\ main_text' = MainText(en)
               /\ dress_text' = DressText(en)
               /\ format_result' = FormatResult(en)
    /\ UNCHANGED <<raw_description, translation>>
    /\ UNCHANGED <<mergeVars, matchVars, descVars, mainVars, dateVars, homeVars,
                   moreVars>>

NextFormat == FormatCall

SpecFormat == InitFormat /\ [][NextFormat]_vars

(***************************************************************************)
(* Claims about the formatter (specification SpecFormat)                   *)
(***************************************************************************)
\* the main summary of a result: what stands before the first label
MainPart(result) ==
    IF result = None \/ result[1] \in {"headphones", "necktie"} THEN <<>>
    ELSE IF \A k \in 1..Len(result) : result[k] # "\n" THEN result
    ELSE SubSeq(result, 1, Min({k \in 1..Len(result) : result[k] = "\n"}) - 1)

\* the dress code text of a result: what stands after the dress code label
DressPart(result) ==
    IF result = None \/ \A k \in 1..Len(result) : result[k] # "necktie" THEN <<>>
    ELSE SubSeq(result, Min({k \in 1..Len(result) : result[k] = "necktie"}) + 14,
                Len(result))

\* C20: in every result of parse_and_format_description the main summary has
\* at most 300 characters and the dress code text after its label at most
\* 200, the ellipsis included.
C20_LengthBounds ==
    fpc = "return" =>
        /\ Len(MainPart(format_result)) <= 300
        /\ Len(DressPart(format_result)) <= 200

\* a description of more than 300 characters before a dress code text of more
\* than 200 has been formatted: both parts are cut, to 300 and 200 characters
C20_Witness ==
    /\ fpc = "return"
    /\ Len(MainPart(format_result)) = 300
    /\ SubSeq(MainPart(format_result), 298, 300) = Ellipsis
    /\ Len(DressPart(format_result)) = 200
    /\ SubSeq(DressPart(format_result), 198, 200) = Ellipsis

\* C21: the result is None whenever the main summary is empty, even if a
\* lineup or a dress code block was produced; otherwise it is the summary
\* followed by the lineup block and then the dress code block, each if produced.
C21_NoneWithoutSummary ==
    (fpc = "return" /\ Truthy(raw_description)) =>
        LET en == DescriptionEn(raw_description, translation)
        IN IF main_text = None THEN format_result = None
           ELSE format_result =
                    Strip(main_text \o LineupPart(en)
                          \o (IF dress_text = None THEN <<>>
                              ELSE DressLabel \o dress_text))

(***************************************************************************)
(* The two calls that translate a description: parse_and_format_description *)
(* and enrich_event_from_queerparis, with one translator for both           *)
(***************************************************************************)
\* the descriptions given to the two calls
TranslateRaws ==
    {None,
     <<"S", "o", "i", "r", "e", "e", " ", "q", "u", "e", "e", "r", " ", "a",
       "u", " ", "b", "a", "r", " ", "d", "u", " ", "q", "u", "a", "r", "t",
       "i", "e", "r", ".", " ">>,
     <<"S", "o", "i", "r", "e", "e", " ", "q", "u", "e", "e", "r", " ", "a",
       "u", " ", "b", "a", "r", " ", "d", "u", " ", "q", "u", "a", "r", "t",
       "i", "e", "r", ".", " ", "T", "e", "n", "u", "e", " ", ":", " ", "c",
       "u", "i", "r", " ", "o", "u", " ", "l", "a", "t", "e", "x", " ", "e",
       "x", "i", "g", "e", ".">>}

\* what translator.translate does: it raises, it returns the text as it is,
\* or it returns an English text
TranslateOutcomes(raw) ==
    {[raises |-> TRUE, text |-> <<>>],
     [raises |-> FALSE, text |-> raw],
     [raises |-> FALSE,
      text |-> <<"Q", "u", "e", "e", "r", " ", "p", "a", "r", "t", "y", " ",
                 "a", "t", " ", "t", "h", "e", " ", "l", "o", "c", "a", "l",
                 " ", "b", "a", "r", ".", " ", "D", "r", "e", "s", "s", " ",
                 "c", "o", "d", "e", ":", " ", "l", "e", "a", "t", "h", "e",
                 "r", " ", "o", "r", " ", "l", "a", "t", "e", "x", " ", "r",
                 "e", "q", "u", "i", "r", "e", "d", ".">>]}

\* the events given to enrich_event_from_queerparis: with and without a detail
\* URL, a description, a ticket link
QueerEvents ==
    {[key \in {"name", "date", "queerParisUrl"} \cup extra |->
         CASE key = "name" -> <<"B">>
           [] key = "date" -> D1
           [] key = "queerParisUrl" -> u
           [] key = "description" -> FormattedDescription
           [] key = "ticketLink" -> ShotgunLink] :
     u \in {None, QueerUrl}, extra \in SUBSET {"description", "ticketLink"}}

\* what the detail page gives: nothing, or every field, the description
\* being the text that is translated
QueerPageInfos(raw) ==
    {[x \in {} |-> None]}
    \cup (IF Truthy(raw)
          THEN {[description |-> raw, address |-> <<"1 rue X, Paris, France">>,
                 price |-> <<"10 EUR">>, ticketLink |-> OtherLink,
                 instagram |-> <<"https://instagram.com", "/bbb">>]}
          ELSE {})

InitTranslate ==
    /\ raw_description \in TranslateRaws
    /\ translation \in TranslateOutcomes(raw_description)
    /\ fpc = "call"
    /\ main_text = None
    /\ dress_text = None
    /\ format_result = None
    /\ qp_event \in QueerEvents
    /\ qp_info \in QueerPageInfos(raw_description)
    /\ qp_result = None
    /\ qpc = "call"
    /\ MergeIdle /\ MatchIdle /\ DescIdle /\ MainIdle /\ DateIdle /\ HomeIdle
    /\ LateIdle

\* the call of enrich_event_from_queerparis (lines 262-300)
QueerCall ==
    /\ qpc = "call"
    /\ qp_result' = enrich_event_from_queerparis(qp_event,
                        [info |-> qp_info, translation |-> translation])
    /\ qpc' = "return"
    /\ UNCHANGED <<qp_event, qp_info>>
    /\ UNCHANGED <<mergeVars, matchVars, descVars, mainVars, dateVars, homeVars,
                   formatVars, lateVars>>

NextTranslate == FormatCall \/ QueerCall

SpecTranslate == InitTranslate /\ [][NextTranslate]_vars

\* the fields enrich_event_from_queerparis fills
QueerKeys == {"description", "address", "price", "ticketLink", "instagram"}

\* the call has a detail URL to read
QueerReads == Truthy(Get(qp_event, "queerParisUrl"))

\* C22: when the translator raises, parse_and_format_description formats the
\* untranslated text and enrich_event_from_queerparis stores the untranslated
\* description and fills the other fields: both calls return their result.
C22_TranslationFailureRecovered ==
    translation.raises =>
        /\ (fpc = "return" /\ Truthy(raw_description)) =>
               format_result = FormatResult(Strip(CollapseSpaces(raw_description)))
        /\ (qpc = "return" /\ QueerReads) =>
               \A key \in QueerKeys :
                   (Truthy(Get(qp_info, key)) /\ ~Truthy(Get(qp_event, key))) =>
                       Get(qp_result, key) = qp_info[key]

\* the translator has raised, the description has been formatted from the
\* French text and the event has received the French description
C22_Witness ==
    /\ translation.raises
    /\ fpc = "return"
    /\ format_result # None
    /\ qpc = "return"
    /\ QueerReads
    /\ "description" \notin DOMAIN qp_event
    /\ Get(qp_result, "description") = raw_description
    /\ Get(qp_result, "address") = qp_info["address"]

(***************************************************************************)
(* extract_description_from_page (eventsearch/enrich_descriptions.py lines *)
(* 13-273).  A page is a list of elements, each with a tag, a class, its   *)
(* place in or out of the main content and its text, and the list of the   *)
(* JSON-LD scripts; what the locators give is read from it.  The euro sign *)
(* is written "euro".                                                      *)
(***************************************************************************)
\* s[:n]
Prefix(s, n) == SubSeq(s, 1, IF Len(s) < n THEN Len(s) ELSE n)

\* any(keyword in s for keyword in keywords)
AnyIn(keywords, s) == \E w \in keywords : IsSubstring(w, s)

\* s.split('\n')
SplitLines(s) ==
    LET starts == SelectSeq([a \in 1..(Len(s) + 1) |-> a],
                            LAMBDA a : a = 1 \/ s[a - 1] = "\n")
        LineEnd(a) ==
            IF \A x \in a..Len(s) : s[x] # "\n" THEN Len(s)
            ELSE Min({x \in a..Len(s) : s[x] = "\n"}) - 1
    IN [j \in 1..Len(starts) |-> SubSeq(s, starts[j], LineEnd(starts[j]))]

\* sep.join(ss)
RECURSIVE Join(_, _)
Join(ss, sep) ==
    IF ss = <<>> THEN <<>>
    ELSE IF Len(ss) = 1 THEN ss[1]
    ELSE ss[1] \o sep \o Join(Tail(ss), sep)

\* [l.strip() for l in s.split('\n') if l.strip()]
StrippedLines(s) ==
    LET ls == SplitLines(s)
        kept == SelectSeq([k \in 1..Len(ls) |-> k], LAMBDA k : Strip(ls[k]) # <<>>)
    IN [j \in 1..Len(kept) |-> Strip(ls[kept[j]])]

\* re.match(r'^\d+', s)
StartsWithDigit(s) == s # <<>> /\ IsDigit(s[1])

\* re.match(r'^\d{1,2}\s+(nov|dec|jan)', s)
StartsWithDate(s) ==
    \E n \in 1..2 :
        /\ Len(s) > n
        /\ \A k \in 1..n : IsDigit(s[k])
        /\ s[n + 1] \in SpaceChars
        /\ \E w \in {<<"n", "o", "v">>, <<"d", "e", "c">>, <<"j", "a", "n">>} :
               StartsWith(SubSeq(s, SpaceRunEnd(s, n + 1) + 1, Len(s)), w)

\* the elements of the page that a selector gives, in document order
TextsOf(page, Selected(_)) ==
    LET kept == SelectSeq([k \in 1..Len(page.elements) |-> k],
                          LAMBDA k : Selected(page.elements[k]))
    IN [j \in 1..Len(kept) |-> page.elements[kept[j]].text]

\* body.inner_text(): the texts of the elements, each a block of its own
BodyText(page) == Join([k \in 1..Len(page.elements) |-> page.elements[k].text],
                       <<"\n", "\n">>)

\* the limits of the strategies
RegexMin == 200
DivMin == 500
DivMax == 10000
AboutZone == 200
AboutBonus == 1000
EventBonus == 500
AboutLineMax == 50
StopLineMax == 80
JsonMin == 50
SelectorMin == 80
SelectorMax == 2000
ShortZone == 50
SectionMin == 100
SectionMax == 1000
SectionLineMin == 20
SectionTextMin == 50
ParagraphMin == 50
ParagraphMax == 500
TicketZone == 30
CombinedMin == 80
LineMin == 50
LineMax == 400
MaxPieces == 3

\* the words that end the text of a labeled section, after an empty line and
\* at most 30 characters (lines 24-27)
SectionEnds ==
    {<<"v", "e", "s", "t", "i", "a", "i", "r", "e">>, <<"i", "n", "f", "o">>, <<
                                                                                "p",
                                                                                "r",
                                                                                "a",
                                                                                "t",
                                                                                "i",
                                                                                "q",
                                                                                "u",
                                                                                "e">>, <<
                                                                                         "c",
                                                                                         "o",
                                                                                         "n",
                                                                                         "s",
                                                                                         "e",
                                                                                         "n",
                                                                                         "t",
                                                                                         "e",
                                                                                         "m",
                                                                                         "e",
                                                                                         "n",
                                                                                         "t">>, <<
                                                                                                  "p",
                                                                                                  "a",
                                                                                                  "r",
                                                                                                  "t",
                                                                                                  "e",
                                                                                                  "n",
                                                                                                  "a",
                                                                                                  "i",
                                                                                                  "r",
                                                                                                  "e",
                                                                                                  "s">>}

LabelDistance == 30

\* the lookahead (?=\n\n[^\n]{0,30}(?:VESTIAIRE|...)|$) at x
LabelEndAt(s, x) ==
    \/ x = Len(s) + 1
    \/ x = Len(s) /\ s[x] = "\n"
    \/ /\ x + 1 <= Len(s)
       /\ s[x] = "\n" /\ s[x + 1] = "\n"
       /\ \E j \in 0..LabelDistance :
              /\ \A k \in (x + 2)..(x + 1 + j) : k <= Len(s) /\ s[k] # "\n"
              /\ \E w \in SectionEnds : FormAt(s, x + 2 + j, w)

\* the labels of description_patterns, in their order, and whether [:\s]*
\* follows the label
description_patterns ==
    <<[label |-> <<"n", "o", "u", "v", "e", "a", "u", "t", "e_acute", " ",
                   "p", "o", "u", "r">>, seps |-> FALSE],
      [label |-> <<"a_grave", " ", "p", "r", "o", "p", "o", "s">>, seps |-> TRUE],
      [label |-> <<"a", "b", "o", "u", "t">>, seps |-> TRUE],
      [label |-> <<"d", "e", "s", "c", "r", "i", "p", "t", "i", "o", "n">>, seps |-> TRUE]>>

\* group 1 of re.search(pattern, s, re.DOTALL | re.IGNORECASE), None when the
\* label is nowhere in s
LabelSearch(s, pattern) ==
    LET starts == {p \in 1..Len(s) : FormAt(s, p, pattern.label)}
    IN IF starts = {} THEN None
       ELSE LET p == Min(starts)
                e == IF pattern.seps THEN SepRunEnd(s, p + Len(pattern.label))
                     ELSE p + Len(pattern.label) - 1
                x == Min({y \in (e + 1)..(Len(s) + 1) : LabelEndAt(s, y)})
            IN SubSeq(s, p, x - 1)

\* re.sub(r'^label[:\s]*', '', s, flags=re.IGNORECASE) for one of the labels
DropLabel(s, labels) ==
    IF \E l \in labels : FormAt(s, 1, l)
    THEN LET l == CHOOSE l \in labels : FormAt(s, 1, l)
         IN SubSeq(s, SepRunEnd(s, Len(l) + 1) + 1, Len(s))
    ELSE s

AProposLabels == {<<"a_grave", " ", "p", "r", "o", "p", "o", "s">>, <<"a",
                                                                      " ",
                                                                      "p",
                                                                      "r",
                                                                      "o",
                                                                      "p",
                                                                      "o", "s">>}

\* lines 32-36: the text of a match without its label
Unlabeled(group1) ==
    DropLabel(DropLabel(DropLabel(Strip(group1), AProposLabels), {<<"a", "b",
                                                                    "o", "u",
                                                                    "t">>}),
              {<<"d", "e", "s", "c", "r", "i", "p", "t", "i", "o", "n">>})

\* lines 29-39: the first pattern whose text is long enough gives the result
RegexCandidate(page) ==
    LET s == BodyText(page)
        ok == {k \in 1..Len(description_patterns) :
                  /\ LabelSearch(s, description_patterns[k]) # None
                  /\ Len(Unlabeled(LabelSearch(s, description_patterns[k]))) > RegexMin}
    IN IF ok = {} THEN None
       ELSE Strip(Unlabeled(LabelSearch(s, description_patterns[Min(ok)])))


about_keywords == {<<"a_grave", " ", "p", "r", "o", "p", "o", "s">>, <<"a",
                                                                       "b",
                                                                       "o",
                                                                       "u",
                                                                       "t">>, <<
                                                                                "d",
                                                                                "e",
                                                                                "s",
                                                                                "c",
                                                                                "r",
                                                                                "i",
                                                                                "p",
                                                                                "t",
                                                                                "i",
                                                                                "o",
                                                                                "n">>, <<
                                                                                         "d",
                                                                                         "e",
                                                                                         "t",
                                                                                         "a",
                                                                                         "i",
                                                                                         "l",
                                                                                         "s">>, <<
                                                                                                  "i",
                                                                                                  "n",
                                                                                                  "f",
                                                                                                  "o">>}

event_keywords ==
    {<<"d", "j">>, <<"m", "u", "s", "i", "c">>, <<"s", "c", "e_grave", "n",
                                                  "e">>, <<"s", "c", "e", "n",
                                                           "e">>, <<"s", "t",
                                                                    "a", "g",
                                                                    "e">>, <<
                                                                             "d",
                                                                             "r",
                                                                             "e",
                                                                             "s",
                                                                             "s">>, <<
                                                                                      "t",
                                                                                      "e",
                                                                                      "n",
                                                                                      "u",
                                                                                      "e">>, <<
                                                                                               "l",
                                                                                               "i",
                                                                                               "n",
                                                                                               "e",
                                                                                               "u",
                                                                                               "p">>,
     <<"l", "i", "n", "e", "-", "u", "p">>, <<"m", "a", "i", "n", "s", "t",
                                              "a", "g", "e">>, <<"p", "l",
                                                                 "a", "y",
                                                                 "s", "t",
                                                                 "a", "g", "e">>}

\* the texts that are never kept by the scoring of the divs (lines 64-66)
div_excluded == {<<"c", "o", "o", "k", "i", "e">>, <<"c", "o", "n", "s", "e",
                                                     "n", "t">>, <<"d", "i",
                                                                   "s", "c",
                                                                   "o", "v",
                                                                   "e", "r",
                                                                   " ", "u",
                                                                   "p", "c",
                                                                   "o", "m",
                                                                   "i", "n",
                                                                   "g", " ",
                                                                   "e", "v",
                                                                   "e", "n",
                                                                   "t", "s">>}

has_about_keyword(text) == AnyIn(about_keywords, Prefix(Lower(text), AboutZone))

has_event_keywords(text) == AnyIn(event_keywords, Lower(text))

\* lines 62-67: the div is kept for scoring
DivAccepted(text) ==
    /\ Len(text) > DivMin
    /\ Len(text) < DivMax
    /\ ~AnyIn(div_excluded, Lower(text))
    /\ (has_about_keyword(text) \/ has_event_keywords(text))

\* lines 70-74
DivScore(text) ==
    Len(text) + (IF has_about_keyword(text) THEN AboutBonus ELSE 0)
              + (IF has_event_keywords(text) THEN EventBonus ELSE 0)

\* lines 48-80: the first div of the highest score, None when no div is kept
BestContent(page) ==
    LET divs == TextsOf(page, LAMBDA e : e.tag = "div")
        ok == {k \in 1..Len(divs) : DivAccepted(divs[k])}
        best == {k \in ok : \A j \in ok : DivScore(divs[j]) <= DivScore(divs[k])}
    IN IF ok = {} THEN None ELSE divs[Min(best)]

stop_keywords ==
    {<<"v", "e", "s", "t", "i", "a", "i", "r", "e">>, <<"i", "n", "f", "o">>, <<
                                                                                "p",
                                                                                "r",
                                                                                "a",
                                                                                "t",
                                                                                "i",
                                                                                "q",
                                                                                "u",
                                                                                "e">>, <<
                                                                                         "c",
                                                                                         "o",
                                                                                         "n",
                                                                                         "s",
                                                                                         "e",
                                                                                         "n",
                                                                                         "t",
                                                                                         "e",
                                                                                         "m",
                                                                                         "e",
                                                                                         "n",
                                                                                         "t">>, <<
                                                                                                  "p",
                                                                                                  "a",
                                                                                                  "r",
                                                                                                  "t",
                                                                                                  "e",
                                                                                                  "n",
                                                                                                  "a",
                                                                                                  "i",
                                                                                                  "r",
                                                                                                  "e",
                                                                                                  "s">>}

NameError == <<"NameError">>

\* lines 86-90: the index (from 0) of the line after the first short line
\* that holds an about keyword, -1 when there is none
AboutStart(ls) ==
    LET found == {k \in 1..Len(ls) :
                     /\ AnyIn(about_keywords, Strip(Lower(ls[k])))
                     /\ Len(ls[k]) < AboutLineMax}
    IN IF found = {} THEN -1 ELSE Min(found)

\* line 97: a short line that holds a stop keyword
IsStopLine(line) ==
    AnyIn(stop_keywords, Strip(Lower(line))) /\ Len(Strip(line)) < StopLineMax

\* lines 82-107: the description part of the best div.  Line 98 reads the
\* name keyword, which is bound only inside the generator expression of line
\* 97: the first stop line raises NameError
DivCandidate(page) ==
    LET best == BestContent(page)
        ls == SplitLines(best)
        start == AboutStart(ls)
        rest == SubSeq(ls, start + 1, Len(ls))
        text == DropLabel(Strip(Join(rest, <<"\n">>)), AProposLabels)
    IN IF best = None THEN None
       ELSE IF start = -1 THEN Strip(best)
       ELSE IF \E k \in 1..Len(rest) : IsStopLine(rest[k]) THEN NameError
       ELSE IF rest # <<>> /\ Len(text) > RegexMin THEN Strip(text)
       ELSE Strip(best)

\* lines 110-136: json.loads of a script gives a dict, a list of dicts, or
\* fails; the first description of more than 50 characters is returned
JsonDescription(data) ==
    IF data.kind = "dict"
    THEN IF "description" \in DOMAIN data.value
            /\ Truthy(data.value["description"])
            /\ Len(data.value["description"]) > JsonMin
         THEN data.value["description"] ELSE None
    ELSE IF data.kind = "list"
    THEN LET ok == {k \in 1..Len(data.value) :
                       /\ Get(data.value[k], "@type") = <<"E", "v", "e", "n",
                                                          "t">>
                       /\ "description" \in DOMAIN data.value[k]
                       /\ Truthy(data.value[k]["description"])
                       /\ Len(data.value[k]["description"]) > JsonMin}
         IN IF ok = {} THEN None ELSE data.value[Min(ok)]["description"]
    ELSE None

JsonCandidate(page) ==
    LET ok == {k \in 1..Len(page.json_ld) : JsonDescription(page.json_ld[k]) # None}
    IN IF ok = {} THEN None ELSE JsonDescription(page.json_ld[Min(ok)])


\* the classes that description_selectors match, in the order of the
\* selectors (lines 140-148)
SelectorClasses == <<"description", "Description", "content", "text">>

\* lines 156-163: the element is taken as the description
SelectorAccepted(text) ==
    /\ Len(text) > SelectorMin
    /\ Len(text) < SelectorMax
    /\ ~StartsWith(text, <<"h", "t", "t", "p">>)
    /\ ~AnyIn({<<"b", "i", "l", "l", "e", "t">>, <<"t", "i", "c", "k", "e",
                                                   "t">>, <<"c", "o", "o",
                                                            "k", "i", "e">>, <<
                                                                               "p",
                                                                               "r",
                                                                               "i",
                                                                               "v",
                                                                               "a",
                                                                               "c",
                                                                               "y">>}, Lower(text))
    /\ ~IsSubstring(<<"n", "o", "v", "e", "m", "b", "e", "r">>, Prefix(Lower(text), ShortZone))

\* lines 150-166: the first element that is accepted, of the first selector
\* that has one
SelectorCandidate(page) ==
    LET Of(c) == TextsOf(page, LAMBDA e : e.class = SelectorClasses[c])
        Ok(c) == {k \in 1..Len(Of(c)) : SelectorAccepted(Strip(Of(c)[k]))}
        cs == {c \in 1..Len(SelectorClasses) : Ok(c) # {}}
    IN IF cs = {} THEN None ELSE Strip(Of(Min(cs))[Min(Ok(Min(cs)))])

\* line 170: section, [class*="event"], [class*="detail"], [class*="info"]
SectionClasses == {"event", "detail", "info"}

section_keywords ==
    {<<"c", "l", "u", "b">>, <<"v", "e", "n", "u", "e">>, <<"p", "a", "r",
                                                            "i", "s">>, <<"r",
                                                                          "u",
                                                                          "e">>, <<
                                                                                   "n",
                                                                                   "o",
                                                                                   "v">>, <<
                                                                                            "d",
                                                                                            "e",
                                                                                            "c">>, <<
                                                                                                     "d",
                                                                                                     "j">>, <<
                                                                                                              "m",
                                                                                                              "u",
                                                                                                              "s",
                                                                                                              "i",
                                                                                                              "c">>}

\* lines 174-180
SectionAccepted(text) ==
    /\ Len(text) > SectionMin
    /\ Len(text) < SectionMax
    /\ ~IsSubstring(<<"d", "i", "s", "c", "o", "v", "e", "r", " ", "u", "p",
                      "c", "o", "m", "i", "n", "g", " ", "e", "v", "e", "n",
                      "t", "s">>, Lower(text))
    /\ ~IsSubstring(<<"b", "i", "l", "l", "e", "t">>, Prefix(Lower(text), ShortZone))
    /\ ~StartsWith(text, <<"h", "t", "t", "p">>)
    /\ AnyIn(section_keywords, Lower(text))

\* lines 186-190: the line is descriptive
SectionLine(line) ==
    /\ ~StartsWithDigit(line)
    /\ ~IsSubstring(<<"euro">>, line)
    /\ ~AnyIn({<<"b", "i", "l", "l", "e", "t">>, <<"t", "i", "c", "k", "e",
                                                   "t">>}, Lower(line))
    /\ Len(line) > SectionLineMin

\* the first n elements of ss that satisfy Kept
FirstKept(ss, Kept(_), n) ==
    LET kept == SelectSeq(ss, Kept)
    IN SubSeq(kept, 1, IF Len(kept) < n THEN Len(kept) ELSE n)

\* lines 182-198: the first three descriptive lines of a section, joined
SectionText(text) == Join(FirstKept(StrippedLines(text), SectionLine, MaxPieces), <<" ">>)

\* lines 168-200
SectionCandidate(page) ==
    LET texts == TextsOf(page, LAMBDA e : e.tag = "section" \/ e.class \in SectionClasses)
        ok == {k \in 1..Len(texts) :
                  /\ SectionAccepted(Strip(texts[k]))
                  /\ Len(SectionText(Strip(texts[k]))) > SectionTextMin}
    IN IF ok = {} THEN None ELSE SectionText(Strip(texts[Min(ok)]))

\* page.query_selector('main, [role="main"], article, [class*="event"]'): the
\* elements of the first of these in the document, the main content (whose
\* elements are marked) or an element of class event, itself; none if the
\* page has neither
MainContent(page) ==
    LET first == {k \in 1..Len(page.elements) :
                     page.elements[k].main \/ page.elements[k].class = "event"}
    IN IF first = {} THEN <<>>
       ELSE IF page.elements[Min(first)].main
       THEN SelectSeq(page.elements, LAMBDA e : e.main)
       ELSE <<page.elements[Min(first)]>>

\* the texts of the elements of a list
Texts(es) == [k \in 1..Len(es) |-> es[k].text]

\* lines 210-217: the paragraph is kept
ParagraphKept(text) ==
    /\ Len(text) > ParagraphMin
    /\ Len(text) < ParagraphMax
    /\ ~StartsWith(text, <<"h", "t", "t", "p">>)
    /\ ~IsSubstring(<<"b", "i", "l", "l", "e", "t">>, Prefix(Lower(text), TicketZone))
    /\ ~IsSubstring(<<"t", "i", "c", "k", "e", "t">>, Prefix(Lower(text), TicketZone))
    /\ ~IsSubstring(<<"d", "i", "s", "c", "o", "v", "e", "r", " ", "u", "p",
                      "c", "o", "m", "i", "n", "g">>, Lower(text))
    /\ ~StartsWithDate(Lower(text))

\* lines 203-225: the first three paragraphs of the main content that are
\* kept, joined
ParagraphCandidate(page) ==
    LET ps == Texts(SelectSeq(MainContent(page), LAMBDA e : e.main /\ e.tag = "p"))
        texts == FirstKept([k \in 1..Len(ps) |-> Strip(ps[k])], ParagraphKept, MaxPieces)
    IN IF Join(texts, <<" ">>) # <<>> /\ Len(Join(texts, <<" ">>)) > CombinedMin
       THEN Join(texts, <<" ">>) ELSE None

skip_zone_keywords ==
    {<<"c", "o", "o", "k", "i", "e">>, <<"c", "o", "n", "s", "e", "n", "t">>, <<
                                                                                "p",
                                                                                "r",
                                                                                "i",
                                                                                "v",
                                                                                "a",
                                                                                "c",
                                                                                "y">>, <<
                                                                                         "b",
                                                                                         "i",
                                                                                         "l",
                                                                                         "l",
                                                                                         "e",
                                                                                         "t">>, <<
                                                                                                  "t",
                                                                                                  "i",
                                                                                                  "c",
                                                                                                  "k",
                                                                                                  "e",
                                                                                                  "t">>, <<
                                                                                                           "n",
                                                                                                           "o",
                                                                                                           "v",
                                                                                                           "e",
                                                                                                           "m",
                                                                                                           "b",
                                                                                                           "e",
                                                                                                           "r">>, <<
                                                                                                                    "n",
                                                                                                                    "o",
                                                                                                                    "v">>,
     <<"d", "e_acute", "c", "e", "m", "b", "r", "e">>, <<"d", "e", "c", "e",
                                                         "m", "b", "e", "r">>}

\* lines 242-258: the line is kept
LineKept(line) ==
    /\ ~AnyIn(skip_zone_keywords, Prefix(Lower(line), ShortZone))
    /\ ~AnyIn({<<"d", "i", "s", "c", "o", "v", "e", "r", " ", "u", "p", "c",
                 "o", "m", "i", "n", "g", " ", "e", "v", "e", "n", "t", "s">>, <<
                                                                                 "b",
                                                                                 "u",
                                                                                 "y",
                                                                                 " ",
                                                                                 "y",
                                                                                 "o",
                                                                                 "u",
                                                                                 "r",
                                                                                 " ",
                                                                                 "t",
                                                                                 "i",
                                                                                 "c",
                                                                                 "k",
                                                                                 "e",
                                                                                 "t",
                                                                                 "s">>}, Lower(line))
    /\ Len(line) > LineMin
    /\ Len(line) < LineMax
    /\ ~StartsWith(line, <<"h", "t", "t", "p">>)
    /\ ~IsSubstring(<<"euro">>, line)
    /\ ~StartsWithDigit(line)
    /\ ~StartsWithDate(Lower(line))

\* lines 228-266: the first three lines of the main content that are kept,
\* joined; without a main content page.inner_text() is called with no
\* selector, which raises TypeError, and the strategy gives nothing
LineCandidate(page) ==
    LET text == Join(Texts(MainContent(page)), <<"\n", "\n">>)
        ls == FirstKept(StrippedLines(text), LineKept, MaxPieces)
    IN IF MainContent(page) = <<>> THEN None
       ELSE IF ls # <<>> /\ Len(Join(ls, <<" ">>)) > CombinedMin
       THEN Join(ls, <<" ">>) ELSE None

\* the strategies in the order of the code
Strategies == <<"regex", "divs", "json", "selectors", "sections", "paragraphs", "lines">>

\* what a strategy finds on the page
Candidate(strategy, page) ==
    CASE strategy = "regex" -> RegexCandidate(page)
      [] strategy = "divs" -> DivCandidate(page)
      [] strategy = "json" -> JsonCandidate(page)
      [] strategy = "selectors" -> SelectorCandidate(page)
      [] strategy = "sections" -> SectionCandidate(page)
      [] strategy = "paragraphs" -> ParagraphCandidate(page)
      [] strategy = "lines" -> LineCandidate(page)


\* an element of a page
Element(tag, class, main, text) ==
    [tag |-> tag, class |-> class, main |-> main, text |-> text]

\* the labeled sections of the pages of the model: none, a section of more
\* than 200 characters, one that speaks of cookies, and a short one
AboutBlocks ==
    {<<>>,
     <<Element("h2", "", FALSE, <<"A", "b", "o", "u", "t", "\n">> \o Rep("a", 250))>>,
     <<Element("h2", "", FALSE, <<"A", "b", "o", "u", "t", "\n", "W", "e",
                                  " ", "b", "a", "k", "e", " ", "a", " ", "c",
                                  "o", "o", "k", "i", "e", ".", " ">> \o Rep("a", 250))>>,
     <<Element("h2", "", FALSE, <<"D", "e", "s", "c", "r", "i", "p", "t", "i",
                                  "o", "n", ":", " ">> \o Rep("a", 100))>>}

\* the divs: none, one with an event keyword, one with a short line holding
\* an about keyword and a stop line after it
DivBlocks ==
    {<<>>,
     <<Element("div", "", FALSE, <<"d", "j", " ">> \o Rep("b", 600))>>,
     <<Element("div", "", FALSE,
               <<"D", "e", "t", "a", "i", "l", "s", "\n">> \o Rep("b", 600) \o <<
                                                                                 "\n",
                                                                                 "I",
                                                                                 "n",
                                                                                 "f",
                                                                                 "o",
                                                                                 "s",
                                                                                 " ",
                                                                                 "p",
                                                                                 "r",
                                                                                 "a",
                                                                                 "t",
                                                                                 "i",
                                                                                 "q",
                                                                                 "u",
                                                                                 "e",
                                                                                 "s",
                                                                                 "\n",
                                                                                 "x">>)>>}

\* the JSON-LD scripts: none, an object with a description, a list with an
\* event, a script that is no JSON
JsonBlocks ==
    {<<>>,
     <<[kind |-> "dict", value |-> [description |-> Rep("j", 60)]]>>,
     <<[kind |-> "list",
        value |-> <<[name |-> <<"x">>],
                    [key \in {"@type", "description"} |->
                        IF key = "@type" THEN <<"E", "v", "e", "n", "t">> ELSE Rep("k", 60)]>>]>>,
     <<[kind |-> "invalid", value |-> <<>>]>>}

\* the elements found by the selectors: none, one that is accepted, one of
\* the second selector before one of the first, one naming cookies
SelectorBlocks ==
    {<<>>,
     <<Element("p", "description", FALSE, Rep("c", 100))>>,
     <<Element("p", "content", FALSE, Rep("g", 100)),
       Element("p", "description", FALSE, Rep("c", 100))>>,
     <<Element("p", "description", FALSE, <<"c", "o", "o", "k", "i", "e", " ">> \o Rep("c", 100))>>}

\* the sections: none, or one with a venue keyword, a price line and two
\* descriptive lines
SectionBlocks ==
    {<<>>,
     <<Element("section", "", FALSE,
               <<"L", "e", " ", "c", "l", "u", "b", " ", "d", "e", " ", "l",
                 "a", " ", "r", "u", "e", "\n", "1", "2", " ", "e", "u", "r",
                 "o", "\n">> \o Rep("d", 60) \o <<"\n">>
               \o Rep("f", 60))>>}

\* the main content: none, two paragraphs, one paragraph too long to be kept
\* whose second line names cookies after its 50th character
MainBlocks ==
    {<<>>,
     <<Element("p", "", TRUE, Rep("e", 60)), Element("p", "", TRUE, Rep("h", 60))>>,
     <<Element("p", "", TRUE,
               Rep("m", 300) \o <<"\n">> \o Rep("n", 250) \o <<"\n">> \o Rep("o", 60)
               \o <<" ", "c", "o", "o", "k", "i", "e">>)>>}

Pages2 ==
    {[elements |-> a \o d \o s \o c \o m, json_ld |-> j] :
        a \in AboutBlocks, d \in DivBlocks, s \in SelectorBlocks,
        c \in SectionBlocks, m \in MainBlocks, j \in JsonBlocks}

InitExtract ==
    /\ xpage \in Pages2
    /\ xpc = "regex"
    /\ xresult = None
    /\ MergeIdle /\ MatchIdle /\ DescIdle /\ MainIdle /\ DateIdle /\ HomeIdle
    /\ FormatIdle /\ QueerIdle /\ InfoIdle /\ ShotgunIdle /\ TitleIdle

extractRest == <<mergeVars, matchVars, descVars, mainVars, dateVars, homeVars,
                 formatVars, queerVars, infoVars, shotgunVars, titleVars>>

\* the position after a strategy that found nothing
After(strategy) ==
    CASE strategy = "regex" -> "divs"
      [] strategy = "divs" -> "json"
      [] strategy = "json" -> "selectors"
      [] strategy = "selectors" -> "sections"
      [] strategy = "sections" -> "paragraphs"
      [] strategy = "paragraphs" -> "lines"
      [] strategy = "lines" -> "return"

\* the outcome of a strategy: its candidate is returned; without one the next
\* strategy is tried; an exception ends the function in the handler of lines
\* 271-273, which returns None
Tried(strategy) ==
    LET found == Candidate(strategy, xpage)
    IN /\ IF found = NameError THEN xresult' = None /\ xpc' = "return"
          ELSE IF found # None THEN xresult' = found /\ xpc' = "return"
          ELSE xresult' = None /\ xpc' = After(strategy)
       /\ UNCHANGED xpage

\* lines 19-40
TryRegex ==
    /\ xpc = "regex"
    /\ Tried("regex")
    /\ UNCHANGED extractRest

\* lines 42-108
TryDivs ==
    /\ xpc = "divs"
    /\ Tried("divs")
    /\ UNCHANGED extractRest

\* lines 110-137
TryJson ==
    /\ xpc = "json"
    /\ Tried("json")
    /\ UNCHANGED extractRest

\* lines 139-166
TrySelectors ==
    /\ xpc = "selectors"
    /\ Tried("selectors")
    /\ UNCHANGED extractRest

\* lines 168-200
TrySections ==
    /\ xpc = "sections"
    /\ Tried("sections")
    /\ UNCHANGED extractRest

\* lines 202-226
TryParagraphs ==
    /\ xpc = "paragraphs"
    /\ Tried("paragraphs")
    /\ UNCHANGED extractRest

\* lines 228-269
TryLines ==
    /\ xpc = "lines"
    /\ Tried("lines")
    /\ UNCHANGED extractRest

NextExtract ==
    \/ TryRegex \/ TryDivs \/ TryJson \/ TrySelectors \/ TrySections
    \/ TryParagraphs \/ TryLines

SpecExtract == InitExtract /\ [][NextExtract]_vars

\* the order of the strategies as it is described
DescribedOrder ==
    <<"regex", "json", "selectors", "divs", "sections", "paragraphs", "lines">>

\* the strategy has a candidate on the page
Accepts(strategy, page) == Candidate(strategy, page) \notin {None, NameError}

\* C23: the function returns the candidate of the first strategy that accepts,
\* in the order labeled-section regex, JSON-LD, selectors, scoring of blocks,
\* paragraphs, lines, and None when no strategy accepts.
C23_FirstInDescribedOrder ==
    xpc = "return" =>
        LET ok == {k \in 1..Len(DescribedOrder) : Accepts(DescribedOrder[k], xpage)}
        IN IF ok = {} THEN xresult = None
           ELSE xresult = Candidate(DescribedOrder[Min(ok)], xpage)

\* C24: the description that the function returns never contains "cookie".
C24_NoCookieReturned ==
    (xpc = "return" /\ xresult # None) => ~IsSubstring(<<"c", "o", "o", "k",
                                                         "i", "e">>, Lower(xresult))

(***************************************************************************)
(* The address step of extract_event_info_from_queerparis                  *)
(* (eventsearch/enrich_from_queerparis.py lines 97-117): the first of the  *)
(* five address_patterns whose match is accepted gives event_info's        *)
(* address.  The other fields of event_info are not part of this model.    *)
(***************************************************************************)
PostalDigits == 5
AddressMin == 10

\* [^,\n]
InPart(c) == c # "," /\ c # "\n"

\* the last index of the longest run of [^,\n] that starts at p (p - 1 when
\* there is none)
PartRunEnd(s, p) ==
    IF \A x \in p..Len(s) : InPart(s[x]) THEN Len(s)
    ELSE Min({x \in p..Len(s) : ~InPart(s[x])}) - 1

\* the last index of the longest run of [^\n] that starts at p
LineRunEnd(s, p) ==
    IF \A x \in p..Len(s) : s[x] # "\n" THEN Len(s)
    ELSE Min({x \in p..Len(s) : s[x] = "\n"}) - 1

\* the end of the match of \d+\s+street[^,\n]+,\s*\d{5}\s+Paris[^,\n]* that
\* starts at p, letters in any case; 0 when there is none
StreetMatchEnd(s, p, street) ==
    LET d == DigitRunEnd(s, p)
        w == SpaceRunEnd(s, d + 1)
        r == w + Len(street)
        n == PartRunEnd(s, r + 1)
        z == SpaceRunEnd(s, n + 2)
        c == z + PostalDigits
        y == SpaceRunEnd(s, c + 1)
    IN IF /\ d >= p
          /\ w > d
          /\ FormAt(s, w + 1, street)
          /\ n > r
          /\ n < Len(s) /\ s[n + 1] = ","
          /\ c <= Len(s)
          /\ \A k \in (z + 1)..c : IsDigit(s[k])
          /\ y > c
          /\ FormAt(s, y + 1, <<"p", "a", "r", "i", "s">>)
       THEN PartRunEnd(s, y + Len(<<"p", "a", "r", "i", "s">>) + 1)
       ELSE 0

\* group 1 of re.search of a street pattern, None without a match
StreetSearch(s, street) ==
    LET starts == {p \in 1..Len(s) : StreetMatchEnd(s, p, street) > 0}
    IN IF starts = {} THEN None
       ELSE SubSeq(s, Min(starts), StreetMatchEnd(s, Min(starts), street))

\* group 2 of re.search(r'(label[:\s]*([^\n]+))', s, re.IGNORECASE): what
\* follows the label and the separators on the line; when nothing follows
\* them, [:\s]* gives back its last character that is no newline
LabelMatch(s, p, label) ==
    LET e == SepRunEnd(s, p + Len(label))
        back == {k \in (p + Len(label))..e : s[k] # "\n"}
    IN IF ~FormAt(s, p, label) THEN None
       ELSE IF e < Len(s) THEN SubSeq(s, e + 1, LineRunEnd(s, e + 1))
       ELSE IF back = {} THEN None
       ELSE <<s[Highest(back)]>>

LabelSearch2(s, label) ==
    LET starts == {p \in 1..Len(s) : LabelMatch(s, p, label) # None}
    IN IF starts = {} THEN None ELSE LabelMatch(s, Min(starts), label)

\* address_patterns (lines 98-104), in their order
address_patterns ==
    <<[kind |-> "street", word |-> <<"r", "u", "e">>],
      [kind |-> "street", word |-> <<"a", "v", "e", "n", "u", "e">>],
      [kind |-> "street", word |-> <<"b", "o", "u", "l", "e", "v", "a", "r",
                                     "d">>],
      [kind |-> "label", word |-> <<"a", "d", "r", "e", "s", "s", "e">>],
      [kind |-> "label", word |-> <<"l", "i", "e", "u">>]>>

\* the group of the match that line 109 reads
AddressGroup(s, pattern) ==
    IF pattern.kind = "street" THEN StreetSearch(s, pattern.word)
    ELSE LabelSearch2(s, pattern.word)

\* lines 109-110
AddressOf(group) == DropLabel(Strip(group), {<<"a", "d", "r", "e", "s", "s",
                                               "e">>, <<"l", "i", "e", "u">>})

\* line 111
AddressAccepted(addr) ==
    /\ Len(addr) > AddressMin
    /\ AnyIn({<<"r", "u", "e">>, <<"a", "v", "e", "n", "u", "e">>, <<"b", "o",
                                                                     "u", "l",
                                                                     "e", "v",
                                                                     "a", "r",
                                                                     "d">>, <<
                                                                              "p",
                                                                              "a",
                                                                              "r",
                                                                              "i",
                                                                              "s">>}, Lower(addr))

EndsWith(s, suffix) ==
    Len(s) >= Len(suffix)
    /\ SubSeq(s, Len(s) - Len(suffix) + 1, Len(s)) = suffix

\* lines 113-115
WithCountry(addr) ==
    IF ~EndsWith(addr, <<"F", "r", "a", "n", "c", "e">>) /\ IsSubstring(<<"P",
                                                                          "a",
                                                                          "r",
                                                                          "i",
                                                                          "s">>, addr)
    THEN addr \o <<",", " ", "F", "r", "a", "n", "c", "e">>
    ELSE addr

\* lines 106-117: event_info after the loop
AddressInfo(s) ==
    LET ok == {k \in 1..Len(address_patterns) :
                  /\ AddressGroup(s, address_patterns[k]) # None
                  /\ AddressAccepted(AddressOf(AddressGroup(s, address_patterns[k])))}
    IN IF ok = {} THEN <<>>
       ELSE [address |->
                WithCountry(AddressOf(AddressGroup(s, address_patterns[Min(ok)])))]

\* the lines of the pages of the model
AddressLines ==
    {<<"1", "2", " ", "r", "u", "e", " ", "d", "e", " ", "l", "a", " ", "P",
       "a", "i", "x", ",", " ", "7", "5", "0", "0", "2", " ", "P", "a", "r",
       "i", "s">>,
     <<"1", "2", " ", "R", "U", "E", " ", "D", "E", " ", "L", "A", " ", "P",
       "A", "I", "X", ",", " ", "7", "5", "0", "0", "2", " ", "P", "A", "R",
       "I", "S">>,
     <<"5", " ", "a", "v", "e", "n", "u", "e", " ", "F", "o", "c", "h", ",",
       " ", "7", "5", "1", "1", "6", " ", "P", "a", "r", "i", "s", ",", " ",
       "F", "r", "a", "n", "c", "e">>,
     <<"8", " ", "b", "o", "u", "l", "e", "v", "a", "r", "d", " ", "V", "o",
       "l", "t", "a", "i", "r", "e", ",", "\n", "7", "5", "0", "1", "1", " ",
       "p", "a", "r", "i", "s", " ", "1", "1", "e">>,
     <<"A", "d", "r", "e", "s", "s", "e", ":", " ", "L", "e", " ", "D", "e",
       "p", "o", "t">>,
     <<"A", "d", "r", "e", "s", "s", "e", " ", ":", " ", " ", "L", "e", " ",
       "B", "a", "r", ",", " ", "p", "a", "r", "i", "s", " ", "1", "1">>,
     <<"L", "i", "e", "u", ":", " ", "C", "a", "f", "e", " ", "d", "e", " ",
       "P", "a", "r", "i", "s", ",", " ", "F", "r", "a", "n", "c", "e">>,
     <<"L", "i", "e", "u", ":", " ", "S", "a", "l", "l", "e", " ", "d", "e",
       "s", " ", "f", "e", "t", "e", "s">>,
     <<"l", "i", "e", "u", ":">>,
     <<"S", "o", "i", "r", "e", "e", " ", "a", "u", " ", "c", "l", "u", "b">>}

PageTexts ==
    AddressLines \cup {a \o <<"\n">> \o b : a \in AddressLines, b \in AddressLines}

InitAddress ==
    /\ all_text \in PageTexts
    /\ event_info = <<>>
    /\ ipc = "call"
    /\ MergeIdle /\ MatchIdle /\ DescIdle /\ MainIdle /\ DateIdle /\ HomeIdle
    /\ FormatIdle /\ QueerIdle /\ PageIdle /\ ShotgunIdle /\ TitleIdle

ExtractAddress ==
    /\ ipc = "call"
    /\ event_info' = AddressInfo(all_text)
    /\ ipc' = "return"
    /\ UNCHANGED all_text
    /\ UNCHANGED <<mergeVars, matchVars, descVars, mainVars, dateVars, homeVars,
                   formatVars, queerVars, pageVars, shotgunVars, titleVars>>

NextAddress == ExtractAddress

SpecAddress == InitAddress /\ [][NextAddress]_vars

\* C25: an address that is stored contains rue, avenue, boulevard or the city
\* name, and when it contains the city name, in any case, it ends with
\* "France".
C25_AddressValidatedAndSuffixed ==
    (ipc = "return" /\ "address" \in DOMAIN event_info) =>
        /\ AnyIn({<<"r", "u", "e">>, <<"a", "v", "e", "n", "u", "e">>, <<"b",
                                                                         "o",
                                                                         "u",
                                                                         "l",
                                                                         "e",
                                                                         "v",
                                                                         "a",
                                                                         "r",
                                                                         "d">>, <<
                                                                                  "p",
                                                                                  "a",
                                                                                  "r",
                                                                                  "i",
                                                                                  "s">>},
                 Lower(event_info["address"]))
        /\ IsSubstring(<<"p", "a", "r", "i", "s">>, Lower(event_info["address"])) =>
               EndsWith(event_info["address"], <<"F", "r", "a", "n", "c", "e">>)

(***************************************************************************)
(* Claim about the detail step of main (specification SpecMain)            *)
(***************************************************************************)
\* C26: a call of enrich_event_from_queerparis in main keeps every field of
\* the event that has a value, those set by the shotgun.live step included:
\* of description, address, price, ticketLink and instagram it sets only the
\* ones that are empty, and it touches no other field.
C26_FillOnlyWhenEmpty ==
    [][MainQueerparis =>
          LET before == heap[new_events[i]]
              after == heap'[new_events[i]]
          IN /\ \A key \in DOMAIN before :
                    (Truthy(before[key]) \/ key \notin QueerKeys) =>
                        Get(after, key) = before[key]
             /\ DOMAIN after \subseteq DOMAIN before \cup QueerKeys]_vars

\* the shotgun.live step has set the ticket link of the first event, the
\* detail page had another link and an address: the event keeps the link of
\* shotgun.live and has received the address
C26_Witness ==
    /\ pc = "close"
    /\ <<"shotgun", 1>> \in enriched
    /\ <<"queerparis", 1>> \in enriched
    /\ Get(heap[new_events[1]], "ticketLink") = ShotgunLink
    /\ Get(heap[new_events[1]], "description") = FormattedDescription
    /\ Get(heap[new_events[1]], "address") = <<"1 rue X, Paris">>

(***************************************************************************)
(* Claim about the order of the arguments of events_match (specification   *)
(* SpecNames)                                                              *)
(***************************************************************************)
\* C27: events_match gives the same result when its two arguments are
\* exchanged.
C27_Symmetric == Returned => (match_result <=> events_match(ev2, ev1))

\* a match where the second name is inside the first, the first is not
\* inside the second and the first has more words
C27_Witness ==
    /\ Returned
    /\ match_result
    /\ LET name1 == normalize_event_name(GetStr(ev1, "name"))
           name2 == normalize_event_name(GetStr(ev2, "name"))
       IN /\ IsSubstring(name2, name1)
          /\ ~IsSubstring(name1, name2)
          /\ Cardinality(WordSet(name1)) > Cardinality(WordSet(name2))

(***************************************************************************)
(* Claim about the moment main writes its output (specification SpecMain)  *)
(***************************************************************************)
\* C28: the output file is opened for writing, and differs from what it was,
\* only after the merge of a run whose input was loaded or missing, whose
\* extraction returned events without raising, and that has no --dry-run.
C28_WriteOnlyAfterMerge ==
    ("save" \in steps \/ output_file # output_file0) =>
        /\ "merge" \in steps
        /\ "extract" \in steps
        /\ ~args.dry_run
        /\ new_events # <<>>
        /\ raised_at = 0
        /\ input_file.kind \in {"catalog", "missing"}

\* a run with --dry-run that has merged two events into the catalog and
\* returned 0: the output file is the catalog it was
C28_Witness ==
    /\ pc = "exit"
    /\ exit_code = 0
    /\ args.dry_run
    /\ "merge" \in steps
    /\ "save" \notin steps
    /\ Len(new_events) = 2
    /\ output_file0.kind = "catalog"
    /\ output_file = output_file0

(***************************************************************************)
(* enrich_event_from_shotgun (eventsearch/orchestrate_event_extraction.py  *)
(* lines 220-260) with search_event_on_shotgun (eventsearch/               *)
(* shotgun_scraper.py lines 125-296), step by step.  What the browser, the *)
(* site and the file system do in one call is fixed when the call starts.  *)
(***************************************************************************)
ShotgunOrigin == <<"h", "t", "t", "p", "s", ":", "/", "/", "s", "h", "o", "t",
                   "g", "u", "n", ".", "l", "i", "v", "e">>

\* lines 237-238: the full URL of a result
FullHref(href) ==
    IF StartsWith(href, <<"h", "t", "t", "p">>) THEN href
    ELSE IF StartsWith(href, <<"/">>) THEN ShotgunOrigin \o href
    ELSE ShotgunOrigin \o <<"/">> \o href

ShortName == 5
WordMin == 2
TextWeight == 2
HrefWeight == 1
ShortBonus == 5
HrefBonus == 3

\* lines 221-226
event_words(event_name) ==
    IF Len(event_name) <= ShortName THEN <<Strip(Lower(event_name))>>
    ELSE SelectSeq(WordSeq(Strip(Lower(event_name)), <<>>),
                   LAMBDA w : Len(w) > WordMin)

\* lines 245-263: the score of a result whose lowered text and full URL are
\* given
match_score(event_name, text, href) ==
    LET words == event_words(event_name)
        in_text == {k \in 1..Len(words) : IsSubstring(words[k], text)}
        in_href == {k \in 1..Len(words) : IsSubstring(words[k], Lower(href))}
        short == /\ Len(event_name) <= ShortName
                 /\ \/ IsSubstring(Strip(Lower(event_name)), text)
                    \/ IsSubstring(Strip(Lower(event_name)), Lower(href))
    IN TextWeight * Cardinality(in_text) + HrefWeight * Cardinality(in_href)
       + (IF short THEN ShortBonus ELSE 0)
       + (IF in_href # {} THEN HrefBonus ELSE 0)

\* lines 218-273: the URL of the first result of the highest score above 0,
\* None when no result has one; a result without href is passed over
best_match_url(event_name, results) ==
    LET Score(k) == match_score(event_name, Lower(results[k].text),
                                FullHref(results[k].href))
        ok == {k \in 1..Len(results) :
                  Truthy(results[k].href) /\ Score(k) > 0}
        best == {k \in ok : \A j \in ok : Score(j) <= Score(k)}
    IN IF ok = {} THEN None ELSE FullHref(results[Min(best)].href)

Result(text, href) == [text |-> text, href |-> href]

\* the links a[href*="/events/"] of the result page
ResultLists ==
    {<<>>,
     <<Result(<<"A", "u", "t", "r", "e", " ", "s", "o", "i", "r", "e", "e">>, <<
                                                                                "/",
                                                                                "e",
                                                                                "v",
                                                                                "e",
                                                                                "n",
                                                                                "t",
                                                                                "s",
                                                                                "/",
                                                                                "a",
                                                                                "u",
                                                                                "t",
                                                                                "r",
                                                                                "e">>)>>,
     <<Result(<<"A", "u", "t", "r", "e", " ", "s", "o", "i", "r", "e", "e">>, <<
                                                                                "/",
                                                                                "e",
                                                                                "v",
                                                                                "e",
                                                                                "n",
                                                                                "t",
                                                                                "s",
                                                                                "/",
                                                                                "a",
                                                                                "u",
                                                                                "t",
                                                                                "r",
                                                                                "e">>),
       Result(<<"B", "B", "B", " ", "x", " ", "A", "y", "a">>, <<"/", "e",
                                                                 "v", "e",
                                                                 "n", "t",
                                                                 "s", "/",
                                                                 "b", "b",
                                                                 "b", "-",
                                                                 "a", "y", "a">>),
       Result(<<"L", "a", " ", "D", "i", "m", "a", "n", "c", "h", "e", " ",
                "a", "u", " ", "C", "a", "f", "e">>, <<"h", "t", "t", "p",
                                                       "s", ":", "/", "/",
                                                       "s", "h", "o", "t",
                                                       "g", "u", "n", ".",
                                                       "l", "i", "v", "e",
                                                       "/", "e", "v", "e",
                                                       "n", "t", "s", "/",
                                                       "d", "i", "m", "a",
                                                       "n", "c", "h", "e">>)>>,
     <<Result(<<"b", "b", "b">>, None), Result(<<"D", "i", "m", "a", "n", "c",
                                                 "h", "e">>, <<"e", "v", "e",
                                                               "n", "t", "s",
                                                               "/", "l", "a",
                                                               "-", "d", "i",
                                                               "m", "a", "n",
                                                               "c", "h", "e",
                                                               "-", "b", "b",
                                                               "b">>)>>}

ShotgunNames == {<<"B", "B", "B">>, <<"L", "a", " ", "D", "i", "m", "a", "n",
                                      "c", "h", "e">>}

\* the calls that can raise in one run of the search, one at most
SearchFaults ==
    {"none", "launch", "new_context", "goto", "fill", "query", "result_goto"}

\* what the description page does: its browser cannot be launched, its
\* navigation raises, no description is found, or one is found and formatted
DescriptionPages == {"launch", "goto", "none", "formatted"}

ShotgunEnvs ==
    [fault : SearchFaults, screenshot_ok : BOOLEAN, bar_visible : BOOLEAN,
     results : ResultLists, image_url : {None, ImageUrl}, page : DescriptionPages]

InitShotgun ==
    /\ sg_env \in ShotgunEnvs
    /\ sg_event \in {MkEvent(n, D1, None) : n \in ShotgunNames}
    /\ sg_browsers = <<>>
    /\ sg_found = <<>>
    /\ sgpc = "launch"
    /\ MergeIdle /\ MatchIdle /\ DescIdle /\ MainIdle /\ DateIdle /\ HomeIdle
    /\ FormatIdle /\ QueerIdle /\ PageIdle /\ InfoIdle /\ TitleIdle

shotgunRest == <<mergeVars, matchVars, descVars, mainVars, dateVars, homeVars,
                 formatVars, queerVars, pageVars, infoVars, titleVars>>

\* browser.close() of the browser launched last
Closed(bs) == [bs EXCEPT ![Len(bs)] = "closed"]

\* browser.close(); return ticket_link, image_url
SearchReturns(ticket_link, image_url) ==
    /\ sg_browsers' = Closed(sg_browsers)
    /\ sg_found' = [ticket_link |-> ticket_link, image_url |-> image_url]
    /\ sgpc' = "searched"

\* an exception inside the try of search_event_on_shotgun
SearchRaises ==
    /\ sgpc' = "handler"
    /\ UNCHANGED <<sg_browsers, sg_found>>

\* shotgun_scraper.py lines 127-132: launch, new_context and new_page, before
\* the try
SearchLaunch ==
    /\ sgpc = "launch"
    /\ IF sg_env.fault = "launch"
       THEN sgpc' = "raised" /\ sg_browsers' = sg_browsers
       ELSE /\ sg_browsers' = Append(sg_browsers, "open")
            /\ sgpc' = IF sg_env.fault = "new_context" THEN "raised" ELSE "goto"
    /\ UNCHANGED <<sg_env, sg_event, sg_found>>
    /\ UNCHANGED shotgunRest

\* lines 135-137: the navigation to the site
SearchGoto ==
    /\ sgpc = "goto"
    /\ IF sg_env.fault = "goto" THEN SearchRaises
       ELSE sgpc' = "find_bar" /\ UNCHANGED <<sg_browsers, sg_found>>
    /\ UNCHANGED <<sg_env, sg_event>>
    /\ UNCHANGED shotgunRest

\* lines 143-165: no selector is visible: screenshot, close, return
SearchFindBar ==
    /\ sgpc = "find_bar"
    /\ IF sg_env.bar_visible
       THEN sgpc' = "fill" /\ UNCHANGED <<sg_browsers, sg_found>>
       ELSE IF sg_env.screenshot_ok THEN SearchReturns(None, None)
       ELSE SearchRaises
    /\ UNCHANGED <<sg_env, sg_event>>
    /\ UNCHANGED shotgunRest

\* lines 170-188: click, fill and screenshot in a try of their own, whose
\* handler takes a screenshot, closes and returns
SearchFill ==
    /\ sgpc = "fill"
    /\ IF sg_env.fault # "fill" /\ sg_env.screenshot_ok
       THEN sgpc' = "results" /\ UNCHANGED <<sg_browsers, sg_found>>
       ELSE IF sg_env.screenshot_ok THEN SearchReturns(None, None)
       ELSE SearchRaises
    /\ UNCHANGED <<sg_env, sg_event>>
    /\ UNCHANGED shotgunRest

\* lines 190-290: the results, the best match, its page and its image
SearchResults ==
    /\ sgpc = "results"
    /\ LET url == best_match_url(sg_event["name"], sg_env.results)
       IN IF sg_env.fault = "query" THEN SearchRaises
          ELSE IF url = None THEN SearchReturns(None, None)
          ELSE IF sg_env.fault = "result_goto" THEN SearchRaises
          ELSE SearchReturns(url, sg_env.image_url)
    /\ UNCHANGED <<sg_env, sg_event>>
    /\ UNCHANGED shotgunRest

\* lines 292-296: the handler takes a screenshot, closes and returns
SearchHandler ==
    /\ sgpc = "handler"
    /\ IF sg_env.screenshot_ok THEN SearchReturns(None, None)
       ELSE sgpc' = "raised" /\ UNCHANGED <<sg_browsers, sg_found>>
    /\ UNCHANGED <<sg_env, sg_event>>
    /\ UNCHANGED shotgunRest

\* orchestrate_event_extraction.py lines 232-260: the fields of the event,
\* then the description page in a browser of its own, inside a try whose
\* handler only prints
EnrichFromSearch ==
    /\ sgpc = "searched"
    /\ sg_event' = enrich_event_from_shotgun(sg_event,
           [ticket_link |-> sg_found.ticket_link,
            image_url |-> sg_found.image_url,
            description |-> IF sg_env.page = "formatted"
                            THEN FormattedDescription ELSE None])
    /\ sg_browsers' =
           IF ~Truthy(sg_found.ticket_link) \/ sg_env.page = "launch"
           THEN sg_browsers
           ELSE IF sg_env.page = "goto" THEN Append(sg_browsers, "open")
           ELSE Append(sg_browsers, "closed")
    /\ sgpc' = "return"
    /\ UNCHANGED <<sg_env, sg_found>>
    /\ UNCHANGED shotgunRest

NextShotgun ==
    \/ SearchLaunch \/ SearchGoto \/ SearchFindBar \/ SearchFill
    \/ SearchResults \/ SearchHandler \/ EnrichFromSearch

SpecShotgun == InitShotgun /\ [][NextShotgun]_vars

\* C29: when enrich_event_from_shotgun returns, every browser that it or
\* search_event_on_shotgun launched is closed.
C29_BrowsersClosed ==
    sgpc = "return" => \A b \in 1..Len(sg_browsers) : sg_browsers[b] = "closed"

(***************************************************************************)
(* format_event_names and title_case (eventsearch/format_names.py), on a   *)
(* file of event names, run twice                                          *)
(***************************************************************************)
LOWERCASE_WORDS ==
    {<<"o", "f">>, <<"f", "r", "o", "m">>, <<"a", "n", "d">>, <<"t", "h", "e">>, <<
                                                                                   "t",
                                                                                   "o">>, <<
                                                                                            "f",
                                                                                            "o",
                                                                                            "r">>, <<
                                                                                                     "i",
                                                                                                     "n">>, <<
                                                                                                              "o",
                                                                                                              "n">>, <<
                                                                                                                       "a",
                                                                                                                       "t">>, <<
                                                                                                                                "b",
                                                                                                                                "y">>,
     <<"w", "i", "t", "h">>, <<"a">>, <<"a", "n">>, <<"a", "s">>, <<"b", "u",
                                                                    "t">>, <<
                                                                             "o",
                                                                             "r">>, <<
                                                                                      "n",
                                                                                      "o",
                                                                                      "r">>, <<
                                                                                               "s",
                                                                                               "o">>, <<
                                                                                                        "y",
                                                                                                        "e",
                                                                                                        "t">>, <<
                                                                                                                 "d",
                                                                                                                 "e">>,
     <<"l", "a">>, <<"l", "e">>, <<"l", "e", "s">>, <<"d", "u">>, <<"d", "e",
                                                                    "s">>, <<
                                                                             "e",
                                                                             "t">>, <<
                                                                                      "o",
                                                                                      "u">>, <<
                                                                                               "x">>}

UpperChar(c) ==
    IF c \in LowerCase
    THEN UpperLetters[CHOOSE k \in 1..Len(LowerLetters) : LowerLetters[k] = c]
    ELSE c

\* str.upper()
Upper(s) == [k \in 1..Len(s) |-> UpperChar(s[k])]

\* str.replace(c, '')
Without(s, c) == SelectSeq(s, LAMBDA x : x # c)

\* str.isupper(): a cased character, and none in lower case
IsUpper(s) ==
    /\ \E k \in 1..Len(s) : s[k] \in UpperCase
    /\ \A k \in 1..Len(s) : s[k] \notin LowerCase

\* str.isalpha()
IsAlpha(s) == s # <<>> /\ \A k \in 1..Len(s) : s[k] \in UpperCase \cup LowerCase

AcronymMax == 5

\* lines 17-33
is_acronym(word) ==
    LET base == Without(word, ".")
    IN IF Len(word) <= 1 THEN FALSE
       ELSE IF IsUpper(base) /\ Len(base) <= AcronymMax THEN TRUE
       ELSE IsAlpha(base) /\ Len(base) <= AcronymMax /\ Upper(base) = base

\* the characters at which line 46 splits (the dashes of the model are "-")
SplitChars == SpaceChars \cup {"-", "/"}

\* the parts that are appended as they are (lines 51 and 61)
Separators == {<<" ">>, <<"-">>, <<"/">>, <<"*">>}

\* s.split(c) for a character c
SplitAt(s, IsSep(_)) ==
    LET starts == SelectSeq([a \in 1..(Len(s) + 1) |-> a],
                            LAMBDA a : a = 1 \/ IsSep(s[a - 1]))
        PartEnd(a) ==
            IF \A x \in a..Len(s) : ~IsSep(s[x]) THEN Len(s)
            ELSE Min({x \in a..Len(s) : IsSep(s[x])}) - 1
    IN [j \in 1..Len(starts) |-> SubSeq(s, starts[j], PartEnd(starts[j]))]

\* re.split(r'([\s\-/])', name): the texts between the separators, each
\* followed by its separator
Parts(name) ==
    LET texts == SplitAt(name, LAMBDA c : c \in SplitChars)
        seps == SelectSeq(name, LAMBDA c : c \in SplitChars)
    IN [j \in 1..(2 * Len(texts) - 1) |->
           IF j % 2 = 1 THEN texts[(j + 1) \div 2] ELSE <<seps[j \div 2]>>]

\* part[0].upper() + part[1:].lower()
Capitalized(part) ==
    IF part = <<>> THEN part
    ELSE <<UpperChar(part[1])>> \o Lower(SubSeq(part, 2, Len(part)))

\* lines 73-78: an acronym, with its dots
FormatAcronym(part) ==
    IF \E k \in 1..Len(part) : part[k] = "."
    THEN LET ps == SplitAt(part, LAMBDA c : c = ".")
         IN Join([k \in 1..Len(ps) |->
                     IF Len(ps[k]) <= 1 THEN Upper(ps[k]) ELSE Capitalized(ps[k])],
                 <<".">>)
    ELSE Upper(part)

\* lines 35-94
title_case(name) ==
    LET parts == Parts(name)
        IsWord(k) == Strip(parts[k]) # <<>> /\ parts[k] \notin Separators
        word_indices == {k \in 1..Len(parts) : IsWord(k)}
        is_first_word(k) == k = Min(word_indices)
        is_last_word(k) == k = Highest(word_indices)
        Formatted(k) ==
            IF ~IsWord(k) THEN parts[k]
            ELSE IF is_acronym(parts[k]) THEN FormatAcronym(parts[k])
            ELSE IF \/ is_first_word(k)
                    \/ is_last_word(k)
                    \/ Lower(parts[k]) \notin LOWERCASE_WORDS
            THEN Capitalized(parts[k])
            ELSE Lower(parts[k])
    IN IF ~Truthy(name) THEN name
       ELSE IF is_acronym(Without(Without(Without(name, " "), "-"), "."))
       THEN name
       ELSE Join([k \in 1..Len(parts) |-> Formatted(k)], <<>>)

\* the words and the separators of the names of the model
TitleWords ==
    {<<"B", ".", "B", "O", "A", "T">>, <<"B", "B", "B">>, <<"l", "a">>, <<"p",
                                                                          "a",
                                                                          "r",
                                                                          "t",
                                                                          "y">>, <<
                                                                                   "X">>, <<
                                                                                            "s",
                                                                                            "o",
                                                                                            "i",
                                                                                            "r",
                                                                                            "e_acute",
                                                                                            "e">>, <<
                                                                                                     "T",
                                                                                                     "7">>, <<
                                                                                                              "*">>, <<>>}

TitleSeps == {<<" ">>, <<"-">>}

TitleNames ==
    TitleWords
    \cup {a \o s \o b : a \in TitleWords, b \in TitleWords, s \in TitleSeps}
    \cup {a \o <<" ">> \o b \o s \o c :
             a \in TitleWords, b \in TitleWords, c \in TitleWords, s \in TitleSeps}

InitTitle ==
    /\ names_file \in {<<n>> : n \in TitleNames}
    /\ names_file1 = <<>>
    /\ npc = "first"
    /\ MergeIdle /\ MatchIdle /\ DescIdle /\ MainIdle /\ DateIdle /\ HomeIdle
    /\ FormatIdle /\ QueerIdle /\ PageIdle /\ InfoIdle /\ ShotgunIdle

titleRest == <<mergeVars, matchVars, descVars, mainVars, dateVars, homeVars,
               formatVars, queerVars, pageVars, infoVars, shotgunVars>>

\* lines 96-117: every name of the file is replaced by its title case
FormattedFile(names) == [k \in 1..Len(names) |-> title_case(names[k])]

\* the first run of format_event_names on the file
FormatNames ==
    /\ npc = "first"
    /\ names_file' = FormattedFile(names_file)
    /\ names_file1' = names_file'
    /\ npc' = "second"
    /\ UNCHANGED titleRest

\* a second run on the file that the first run wrote
FormatNamesAgain ==
    /\ npc = "second"
    /\ names_file' = FormattedFile(names_file)
    /\ npc' = "done"
    /\ UNCHANGED names_file1
    /\ UNCHANGED titleRest

NextTitle == FormatNames \/ FormatNamesAgain

SpecTitle == InitTitle /\ [][NextTitle]_vars

\* C30: a second run of format_event_names changes no name of the file that
\* the first run wrote: title_case(title_case(n)) = title_case(n).
C30_TitleCaseIdempotent == npc = "done" => names_file = names_file1

====
